---------------------------- MODULE Spec2Model ----------------------------
(***************************************************************************)
(* Model of the validation and error-taxonomy core of social-analyzer:     *)
(*   modules/config.js         schema-driven configuration loading         *)
(*   modules/validation.js     request field validators and sanitizers     *)
(*   modules/error-handler.js  failure classification and response record  *)
(*                                                                         *)
(* JavaScript strings are TLA+ strings (Len, SubSeq and \o act on them).   *)
(* A JavaScript value of dynamic type is a one-field record whose field    *)
(* name is its type tag, so values of different types compare unequal.     *)
(***************************************************************************)
EXTENDS Integers, Sequences, FiniteSets, TLC

(***************************************************************************)
(* String primitives (String.prototype / RegExp behaviour used by the code)*)
(***************************************************************************)
Digits == {"0", "1", "2", "3", "4", "5", "6", "7", "8", "9"}

LowerLetters == {"a", "b", "c", "d", "e", "f", "g", "h", "i", "j", "k", "l", "m",
                 "n", "o", "p", "q", "r", "s", "t", "u", "v", "w", "x", "y", "z"}

UpperLetters == {"A", "B", "C", "D", "E", "F", "G", "H", "I", "J", "K", "L", "M",
                 "N", "O", "P", "Q", "R", "S", "T", "U", "V", "W", "X", "Y", "Z"}

HexDigits == Digits \cup {"a", "b", "c", "d", "e", "f", "A", "B", "C", "D", "E", "F"}

\* the white space String.prototype.trim removes (the ASCII part of it)
WhiteSpace == {" ", "\t", "\n", "\r", "\f"}

CharAt(s, i) == SubSeq(s, i, i)

\* s.slice(i - 1): the suffix that starts at 1-based position i
From(s, i) == SubSeq(s, i, Len(s))

AllIn(s, chars) == \A i \in 1..Len(s) : CharAt(s, i) \in chars

\* s.includes(sub)
Includes(s, sub) ==
    \E i \in 1..(Len(s) - Len(sub) + 1) : SubSeq(s, i, i + Len(sub) - 1) = sub

StartsWith(s, pre) == Len(s) >= Len(pre) /\ SubSeq(s, 1, Len(pre)) = pre

\* s.indexOf(sub), 1-based; 0 when sub does not occur
IndexOf(s, sub) ==
    IF Includes(s, sub)
    THEN CHOOSE i \in 1..(Len(s) - Len(sub) + 1) :
            /\ SubSeq(s, i, i + Len(sub) - 1) = sub
            /\ \A j \in 1..(i - 1) : SubSeq(s, j, j + Len(sub) - 1) # sub
    ELSE 0

\* s.trim()
Trim(s) ==
    LET keep == {i \in 1..Len(s) : CharAt(s, i) \notin WhiteSpace}
    IN  IF keep = {} THEN ""
        ELSE LET lo == CHOOSE i \in keep : \A j \in keep : i <= j
                 hi == CHOOSE i \in keep : \A j \in keep : j <= i
             IN  SubSeq(s, lo, hi)

UpperOf(c) ==
    CASE c = "a" -> "A" [] c = "b" -> "B" [] c = "c" -> "C" [] c = "d" -> "D"
      [] c = "e" -> "E" [] c = "f" -> "F" [] c = "g" -> "G" [] c = "h" -> "H"
      [] c = "i" -> "I" [] c = "j" -> "J" [] c = "k" -> "K" [] c = "l" -> "L"
      [] c = "m" -> "M" [] c = "n" -> "N" [] c = "o" -> "O" [] c = "p" -> "P"
      [] c = "q" -> "Q" [] c = "r" -> "R" [] c = "s" -> "S" [] c = "t" -> "T"
      [] c = "u" -> "U" [] c = "v" -> "V" [] c = "w" -> "W" [] c = "x" -> "X"
      [] c = "y" -> "Y" [] c = "z" -> "Z" [] OTHER -> c

LowerOf(c) ==
    CASE c = "A" -> "a" [] c = "B" -> "b" [] c = "C" -> "c" [] c = "D" -> "d"
      [] c = "E" -> "e" [] c = "F" -> "f" [] c = "G" -> "g" [] c = "H" -> "h"
      [] c = "I" -> "i" [] c = "J" -> "j" [] c = "K" -> "k" [] c = "L" -> "l"
      [] c = "M" -> "m" [] c = "N" -> "n" [] c = "O" -> "o" [] c = "P" -> "p"
      [] c = "Q" -> "q" [] c = "R" -> "r" [] c = "S" -> "s" [] c = "T" -> "t"
      [] c = "U" -> "u" [] c = "V" -> "v" [] c = "W" -> "w" [] c = "X" -> "x"
      [] c = "Y" -> "y" [] c = "Z" -> "z" [] OTHER -> c

RECURSIVE ToUpperCase(_)
ToUpperCase(s) ==
    IF s = "" THEN "" ELSE UpperOf(CharAt(s, 1)) \o ToUpperCase(From(s, 2))

RECURSIVE ToLowerCase(_)
ToLowerCase(s) ==
    IF s = "" THEN "" ELSE LowerOf(CharAt(s, 1)) \o ToLowerCase(From(s, 2))

\* s.split(sep): the sequence of segments, empty ones included
RECURSIVE Split(_, _)
Split(s, sep) ==
    LET i == IndexOf(s, sep)
    IN  IF i = 0 THEN <<s>>
        ELSE <<SubSeq(s, 1, i - 1)>> \o Split(From(s, i + Len(sep)), sep)

\* parts.join(sep)
RECURSIVE Join(_, _)
Join(parts, sep) ==
    IF Len(parts) = 0 THEN ""
    ELSE IF Len(parts) = 1 THEN parts[1]
    ELSE parts[1] \o sep \o Join(Tail(parts), sep)

\* c.repeat(n)
RECURSIVE Repeat(_, _)
Repeat(c, n) == IF n <= 0 THEN "" ELSE c \o Repeat(c, n - 1)

DigitValue(c) ==
    CASE c = "0" -> 0 [] c = "1" -> 1 [] c = "2" -> 2 [] c = "3" -> 3 [] c = "4" -> 4
      [] c = "5" -> 5 [] c = "6" -> 6 [] c = "7" -> 7 [] c = "8" -> 8 [] c = "9" -> 9

\* the value of a non-empty string of decimal digits
RECURSIVE ParseDigits(_)
ParseDigits(s) ==
    IF s = "" THEN 0
    ELSE 10 * ParseDigits(SubSeq(s, 1, Len(s) - 1)) + DigitValue(CharAt(s, Len(s)))

IsDigits(s) == s # "" /\ AllIn(s, Digits)


(***************************************************************************)
(* JavaScript values, results and error objects                            *)
(***************************************************************************)
Undefined == [undefined |-> TRUE]
Null      == [null |-> TRUE]
Str(s)    == [str |-> s]
Num(n)    == [num |-> n]
Bool(b)   == [bool |-> b]
Arr(a)    == [arr |-> a]
\* a plain object with the given own properties (a record of JavaScript values)
Obj(props) == [obj |-> props]

\* a reference to an array object of the heap (arrays are shared, not copied)
Ref(id)   == [ref |-> id]

IsStr(v) == DOMAIN v = {"str"}
IsRef(v) == DOMAIN v = {"ref"}
IsArr(v) == DOMAIN v = {"arr"}
IsObj(v) == DOMAIN v = {"obj"}

\* typeof v
TypeOf(v) ==
    CASE DOMAIN v = {"undefined"} -> "undefined"
      [] DOMAIN v = {"str"}       -> "string"
      [] DOMAIN v = {"num"}       -> "number"
      [] DOMAIN v = {"bool"}      -> "boolean"
      [] OTHER                    -> "object"

\* the truthiness of v, as in !v and in v && ...
Truthy(v) ==
    CASE DOMAIN v = {"undefined"} -> FALSE
      [] DOMAIN v = {"null"}      -> FALSE
      [] DOMAIN v = {"str"}       -> v.str # ""
      [] DOMAIN v = {"num"}       -> v.num # 0
      [] DOMAIN v = {"bool"}      -> v.bool
      [] OTHER                    -> TRUE

\* obj[key]: undefined when obj has no such own property
Prop(v, key) ==
    IF IsObj(v) /\ key \in DOMAIN v.obj THEN v.obj[key] ELSE Undefined

\* a call either returns a value or throws an error object
Return(v) == [ret |-> v]
Throw(e)  == [thrown |-> e]
Returned(r) == DOMAIN r = {"ret"}
Threw(r)    == DOMAIN r = {"thrown"}

\* Error.prototype.stack as V8 fills it in: the message and the frames
StackOf(name, message) == name \o ": " \o message \o "\n    at /srv/app/modules/x.js:1:1"

\* new ValidationError(field, message)
ValidationError(field, message) ==
    [cls         |-> "ValidationError",
     name        |-> "ValidationError",
     field       |-> field,
     message     |-> message,
     userMessage |-> "Invalid " \o field \o ": " \o message,
     stack       |-> StackOf("Error", message)]

\* the TypeError the engine raises for a call of a property that is no function
TypeError(message) ==
    [cls     |-> "TypeError",
     name    |-> "TypeError",
     message |-> message,
     stack   |-> StackOf("TypeError", message)]

IsValidationError(e) == e.cls = "ValidationError"

(***************************************************************************)
(* modules/validation.js                                                   *)
(***************************************************************************)
UsernameMinLength == 1
UsernameMaxLength == 100
MaxUsernames == 50
UuidMinLength == 5
UuidMaxLength == 50

\* USERNAME_RULES.pattern: /^[a-zA-Z0-9._-]+$/
UsernameChars == LowerLetters \cup UpperLetters \cup Digits \cup {".", "_", "-"}

\* a pattern without the dot: /^[a-zA-Z0-9_-]+$/
UsernamePatternNoDot(s) == s # "" /\ AllIn(s, UsernameChars \ {"."})

UsernamePattern(s) == s # "" /\ AllIn(s, UsernameChars)

UsernameBlacklist == <<"SELECT", "INSERT", "UPDATE", "DELETE", "DROP", "CREATE", "ALTER",
                       "EXEC", "EXECUTE", "SCRIPT", "JAVASCRIPT">>

\* USERNAME_RULES.pathTraversal: /\.\./
PathTraversal(s) == Includes(s, "..")

\* the blacklist loop without the conversion to upper case
ContainsBlockedExact(s) == \E k \in 1..Len(UsernameBlacklist) : Includes(s, UsernameBlacklist[k])

\* the blacklist loop of validateUsername
ContainsBlocked(s) ==
    LET upperUsername == ToUpperCase(s)
    IN  \E k \in 1..Len(UsernameBlacklist) : Includes(upperUsername, UsernameBlacklist[k])

validateUsername(username) ==
    IF ~Truthy(username)
    THEN Throw(ValidationError("username", "Username is required"))
    ELSE IF TypeOf(username) # "string"
    THEN Throw(ValidationError("username", "Username must be a string"))
    ELSE LET u == Trim(username.str)
         IN  IF Len(u) < UsernameMinLength
             THEN Throw(ValidationError("username",
                    "Username must be at least " \o ToString(UsernameMinLength) \o " character"))
             ELSE IF Len(u) > UsernameMaxLength
             THEN Throw(ValidationError("username",
                    "Username cannot exceed " \o ToString(UsernameMaxLength) \o " characters"))
             ELSE IF ~UsernamePattern(u)
             THEN Throw(ValidationError("username",
                    "Username can only contain letters, numbers, dots, underscores, and hyphens"))
             ELSE IF PathTraversal(u)
             THEN Throw(ValidationError("username", "Invalid username format"))
             ELSE IF ContainsBlocked(u)
             THEN Throw(ValidationError("username", "Username contains blocked keywords"))
             ELSE Return(Str(u))

\* the split alone: segments as they are, the empty ones included
UntrimmedSegments(s, sep) == Split(s, sep)

\* usernames.split(',').map(u => u.trim()).filter(u => u)
TrimmedSegments(s, sep) ==
    LET parts == Split(s, sep)
        trimmed == [i \in 1..Len(parts) |-> Trim(parts[i])] \o <<>>
    IN  SelectSeq(trimmed, LAMBDA u : u # "")

\* the count tested after the elements: too many of them, all well formed
TooManyValid(usernameList, bad) == bad = {} /\ Len(usernameList) > MaxUsernames

\* usernameList.length > 50, tested before any element is validated (bad are the
\* positions the map that follows would find invalid)
TooMany(usernameList, bad) == Len(usernameList) > MaxUsernames

validateUsernames(usernames) ==
    IF ~Truthy(usernames)
    THEN Throw(ValidationError("usernames", "At least one username is required"))
    ELSE IF TypeOf(usernames) # "string"
    THEN Throw(ValidationError("usernames", "Usernames must be a string"))
    ELSE LET usernameList == TrimmedSegments(usernames.str, ",")
             each == [i \in 1..Len(usernameList) |-> validateUsername(Str(usernameList[i]))] \o <<>>
             bad == {i \in 1..Len(usernameList) : Threw(each[i])}
         IN  IF Len(usernameList) = 0
             THEN Throw(ValidationError("usernames", "At least one valid username is required"))
             ELSE IF TooMany(usernameList, bad)
             THEN Throw(ValidationError("usernames",
                    "Maximum " \o ToString(MaxUsernames) \o " usernames allowed per request"))
             ELSE IF bad # {}
             THEN LET index == CHOOSE i \in bad : \A j \in bad : i <= j
                  IN  Throw(ValidationError("usernames",
                        "Username #" \o ToString(index) \o " is invalid: "
                          \o each[index].thrown.userMessage))
             ELSE Return(Arr([i \in 1..Len(usernameList) |-> each[i].ret.str] \o <<>>))

\* UUID_RULES.pattern: /^[a-zA-Z0-9-]+$/
UuidChars == LowerLetters \cup UpperLetters \cup Digits \cup {"-"}

validateUUID(uuid) ==
    IF ~Truthy(uuid)
    THEN Throw(ValidationError("uuid", "UUID is required"))
    ELSE IF TypeOf(uuid) # "string"
    THEN Throw(ValidationError("uuid", "UUID must be a string"))
    ELSE LET u == Trim(uuid.str)
         IN  IF Len(u) < UuidMinLength \/ Len(u) > UuidMaxLength
             THEN Throw(ValidationError("uuid", "Invalid UUID format"))
             ELSE IF ~(u # "" /\ AllIn(u, UuidChars))
             THEN Throw(ValidationError("uuid", "UUID can only contain letters, numbers, and hyphens"))
             ELSE IF PathTraversal(u)
             THEN Throw(ValidationError("uuid", "Invalid UUID format"))
             ELSE Return(Str(u))

(***************************************************************************)
(* validator.isURL(url, {protocols: ['http','https'], require_protocol,    *)
(* require_valid_protocol, allow_underscores}) of the validator package,   *)
(* with the package's other defaults (require_tld, require_host), and the  *)
(* hostname of the WHATWG URL parser, on ASCII input.                      *)
(***************************************************************************)
UrlMaxLength == 2083
PortMax == 65535
FqdnPartMaxLength == 63

\* one decimal byte without a leading zero
IsIPv4Part(p) ==
    /\ IsDigits(p)
    /\ Len(p) <= 3
    /\ (Len(p) > 1 => CharAt(p, 1) # "0")
    /\ ParseDigits(p) <= 255

\* isIP(host, 4)
IsIPv4(host) ==
    LET parts == Split(host, ".")
    IN  Len(parts) = 4 /\ \A i \in 1..4 : IsIPv4Part(parts[i])

\* isIP(host, 6) for addresses without a zone id or an embedded IPv4 part
IsIPv6(host) ==
    LET halves == Split(host, "::")
        groupsOf(h) == IF h = "" THEN <<>> ELSE Split(h, ":")
        okGroups(g) == \A i \in 1..Len(g) : g[i] # "" /\ Len(g[i]) <= 4 /\ AllIn(g[i], HexDigits)
    IN  /\ host # ""
        /\ Len(halves) <= 2
        /\ \A i \in 1..Len(halves) : okGroups(groupsOf(halves[i]))
        /\ IF Len(halves) = 1
           THEN Len(groupsOf(halves[1])) = 8
           ELSE Len(groupsOf(halves[1])) + Len(groupsOf(halves[2])) <= 7

\* isFQDN(host, {require_tld: true, allow_underscores: true})
IsFQDN(host) ==
    LET parts == Split(host, ".")
        tld == parts[Len(parts)]
        partChars == LowerLetters \cup UpperLetters \cup Digits \cup {"_", "-"}
    IN  /\ Len(parts) >= 2
        /\ \/ (Len(tld) >= 2 /\ AllIn(tld, LowerLetters \cup UpperLetters))
           \/ (StartsWith(ToLowerCase(tld), "xn") /\ Len(tld) >= 4
                 /\ AllIn(From(tld, 3), LowerLetters \cup UpperLetters \cup Digits \cup {"-"}))
        /\ \A i \in 1..Len(parts) :
              /\ parts[i] # ""
              /\ Len(parts[i]) <= FqdnPartMaxLength
              /\ AllIn(parts[i], partChars)
              /\ CharAt(parts[i], 1) # "-"
              /\ CharAt(parts[i], Len(parts[i])) # "-"

\* the text before the first of the given delimiters
Before(s, delims) ==
    LET hits == {i \in 1..Len(s) : CharAt(s, i) \in delims}
    IN  IF hits = {} THEN s
        ELSE SubSeq(s, 1, (CHOOSE i \in hits : \A j \in hits : i <= j) - 1)

IsURL(url) ==
    /\ url # ""
    /\ \A i \in 1..Len(url) : CharAt(url, i) \notin (WhiteSpace \cup {"<", ">"})
    /\ ~StartsWith(url, "mailto:")
    /\ Len(url) < UrlMaxLength
    /\ \E bySchemeSep \in {Split(Split(Split(url, "#")[1], "?")[1], "://")} :
        /\ Len(bySchemeSep) > 1                                     \* require_protocol
        /\ ToLowerCase(bySchemeSep[1]) \in {"http", "https"}        \* require_valid_protocol
        /\ \E rest \in {Join(Tail(bySchemeSep), "://")} :
            /\ rest # ""
            /\ \E authority \in {Split(rest, "/")[1]} :
               \E byAt \in {Split(authority, "@")} :
                /\ Len(byAt) > 1 =>
                      \E auth \in {byAt[1]} :
                        /\ auth # ""
                        /\ ~(Includes(auth, ":") /\ Len(Split(auth, ":")) > 2)
                        /\ auth # ":"
                /\ \E hostname \in {IF Len(byAt) > 1 THEN Join(Tail(byAt), "@") ELSE authority} :
                   \E wrapped \in {StartsWith(hostname, "[") /\ Includes(hostname, "]")} :
                   \E ipv6 \in {IF wrapped THEN SubSeq(hostname, 2, IndexOf(hostname, "]") - 1) ELSE ""} :
                   \E afterIpv6 \in {IF wrapped THEN From(hostname, IndexOf(hostname, "]") + 1) ELSE ""} :
                   \E wrappedOk \in {wrapped /\ ipv6 # "" /\ ~Includes(ipv6, "]")
                                        /\ (afterIpv6 = "" \/ (StartsWith(afterIpv6, ":")
                                                                /\ IsDigits(From(afterIpv6, 2))))} :
                   \E byColon \in {Split(hostname, ":")} :
                   \E host \in {IF wrappedOk THEN "" ELSE byColon[1]} :
                   \E portStr \in {IF wrappedOk
                                    THEN (IF afterIpv6 = "" THEN "" ELSE From(afterIpv6, 2))
                                    ELSE Join(Tail(byColon), ":")} :
                    /\ portStr # "" =>
                          /\ IsDigits(portStr)
                          /\ Len(portStr) <= 5
                          /\ \E port \in {ParseDigits(portStr)} : port > 0 /\ port <= PortMax
                    /\ (IsIPv4(host) \/ IsFQDN(host) \/ (wrappedOk /\ IsIPv6(ipv6)))

\* new URL(url).hostname for an http(s) URL: lower-cased, without user info and port;
\* an IPv6 literal keeps its square brackets
UrlHostname(url) ==
    LET rest == Join(Tail(Split(url, "://")), "://")
        authority == Before(rest, {"/", "?", "#"})
        byAt == Split(authority, "@")
        hostport == byAt[Len(byAt)]
        host == IF StartsWith(hostport, "[") /\ Includes(hostport, "]")
                THEN SubSeq(hostport, 1, IndexOf(hostport, "]"))
                ELSE Split(hostport, ":")[1]
    IN  ToLowerCase(host)

\* privatePatterns of validateUrl, tested against the parsed hostname
MatchesPrivatePattern(hostname) ==
    LET p == Split(hostname, ".")
        dotted == Len(p) = 4 /\ \A i \in 1..4 : IsDigits(p[i])
    IN  \/ hostname = "localhost"                                  \* /^localhost$/i
        \/ (dotted /\ p[1] = "127")                                \* /^127\.\d+\.\d+\.\d+$/
        \/ (dotted /\ p[1] = "10")                                 \* /^10\.\d+\.\d+\.\d+$/
        \/ (dotted /\ p[1] = "172" /\ Len(p[2]) = 2                \* /^172\.(1[6-9]|2\d|3[01])\.\d+\.\d+$/
              /\ ParseDigits(p[2]) >= 16 /\ ParseDigits(p[2]) <= 31)
        \/ (dotted /\ p[1] = "192" /\ p[2] = "168")                \* /^192\.168\.\d+\.\d+$/
        \/ hostname = "::1"                                        \* /^::1$/
        \/ StartsWith(hostname, "fe80:")                           \* /^fe80:/i

\* validateUrl(url, options) under process.env.NODE_ENV = nodeEnvNow
validateUrl(url, optional, nodeEnvNow) ==
    IF ~Truthy(url)
    THEN IF optional THEN Return(Str(""))
         ELSE Throw(ValidationError("url", "URL is required"))
    ELSE IF TypeOf(url) # "string"
    THEN Throw(ValidationError("url", "URL must be a string"))
    ELSE LET u == Trim(url.str)
         IN  IF ~IsURL(u)
             THEN Throw(ValidationError("url", "Invalid URL format"))
             ELSE IF nodeEnvNow = "production" /\ MatchesPrivatePattern(UrlHostname(u))
             THEN Throw(ValidationError("url", "Private/internal URLs are not allowed"))
             ELSE Return(Str(u))

validModes == {"fast", "slow", "special"}

validateMode(mode) ==
    IF ~Truthy(mode)
    THEN Return(Str("fast"))
    ELSE IF TypeOf(mode) # "string"
    THEN Throw(ValidationError("mode", "Mode must be a string"))
    ELSE LET m == ToLowerCase(Trim(mode.str))
         IN  IF m \notin validModes
             THEN Throw(ValidationError("mode", "Mode must be one of: fast, slow, special"))
             ELSE Return(Str(m))

validOptions == {"FindUserProfilesFast", "FindUserProfilesSlow", "FindUserProfilesSpecial",
                 "ShowUserInfo"}

validateOption(option) ==
    IF ~Truthy(option)
    THEN Throw(ValidationError("option", "Option is required"))
    ELSE IF TypeOf(option) # "string"
    THEN Throw(ValidationError("option", "Option must be a string"))
    ELSE LET o == Trim(option.str)
         IN  IF o \notin validOptions
             THEN Throw(ValidationError("option",
                    "Invalid option. Must be one of: FindUserProfilesFast, FindUserProfilesSlow, FindUserProfilesSpecial, ShowUserInfo"))
             ELSE Return(Str(o))

DefaultUserAgent ==
    "Mozilla/5.0 (X11; Ubuntu; Linux x86_64; rv:102.0) Gecko/20100101 Firefox/102.0"

UserAgentMinLength == 10
UserAgentMaxLength == 500
ApiKeyMinLength == 10
ApiKeyMaxLength == 200

\* s.replace(/[chars]/g, '')
RECURSIVE RemoveChars(_, _)
RemoveChars(s, chars) ==
    IF s = "" THEN ""
    ELSE (IF CharAt(s, 1) \in chars THEN "" ELSE CharAt(s, 1)) \o RemoveChars(From(s, 2), chars)

\* the control characters /[\x00-\x1F\x7F]/ that a string of the model can hold
ControlChars == {"\t", "\n", "\r", "\f"}

validateUserAgent(userAgent) ==
    IF ~Truthy(userAgent)
    THEN Return(Str(DefaultUserAgent))
    ELSE IF TypeOf(userAgent) # "string"
    THEN Throw(ValidationError("userAgent", "User-Agent must be a string"))
    ELSE LET ua == Trim(userAgent.str)
         IN  IF Len(ua) < UserAgentMinLength \/ Len(ua) > UserAgentMaxLength
             THEN Throw(ValidationError("userAgent", "User-Agent has invalid length"))
             ELSE Return(Str(RemoveChars(ua, ControlChars)))

\* /^[a-zA-Z0-9_-]+$/
ApiKeyChars == LowerLetters \cup UpperLetters \cup Digits \cup {"_", "-"}

validateApiKey(apiKey, optional) ==
    IF ~Truthy(apiKey)
    THEN IF optional THEN Return(Str(""))
         ELSE Throw(ValidationError("apiKey", "API key is required"))
    ELSE IF TypeOf(apiKey) # "string"
    THEN Throw(ValidationError("apiKey", "API key must be a string"))
    ELSE LET k == Trim(apiKey.str)
         IN  IF Len(k) < ApiKeyMinLength \/ Len(k) > ApiKeyMaxLength
             THEN Throw(ValidationError("apiKey", "API key has invalid length"))
             ELSE IF ~(k # "" /\ AllIn(k, ApiKeyChars))
             THEN Throw(ValidationError("apiKey", "API key contains invalid characters"))
             ELSE Return(Str(k))

\* body.string && body.string.includes(','): the value of the test, or the TypeError
\* raised when body.string is truthy and has no includes method
StringHasComma(v) ==
    IF ~Truthy(v) THEN Return(Bool(FALSE))
    ELSE IF IsStr(v) THEN Return(Bool(Includes(v.str, ",")))
    ELSE IF IsArr(v) THEN Return(Bool(\E i \in 1..Len(v.arr) : v.arr[i] = ","))
    ELSE Throw(TypeError("body.string.includes is not a function"))

\* the properties of the sanitized object in the order the code assigns them; the
\* first call that throws ends the function
validateAnalyzeRequest(body) ==
    IF ~Truthy(body) \/ TypeOf(body) # "object"
    THEN Throw(ValidationError("request", "Invalid request body"))
    ELSE LET uuid == validateUUID(Prop(body, "uuid"))
             comma == StringHasComma(Prop(body, "string"))
             str == IF Threw(comma) THEN comma
                    ELSE IF comma.ret.bool THEN validateUsernames(Prop(body, "string"))
                    ELSE LET one == validateUsername(Prop(body, "string"))
                         IN  IF Threw(one) THEN one ELSE Return(Arr(<<one.ret.str>>))
             hasOption == Truthy(Prop(body, "option"))
             option == validateOption(Prop(body, "option"))
             hasMode == Truthy(Prop(body, "mode"))
             mode == validateMode(Prop(body, "mode"))
         IN  IF Threw(uuid) THEN uuid
             ELSE IF Threw(str) THEN str
             ELSE IF hasOption /\ Threw(option) THEN option
             ELSE IF hasMode /\ Threw(mode) THEN mode
             ELSE Return(Obj(
                    [k \in {"uuid", "string"} \cup (IF hasOption THEN {"option"} ELSE {})
                                              \cup (IF hasMode THEN {"mode"} ELSE {}) |->
                        CASE k = "uuid"   -> uuid.ret
                          [] k = "string" -> str.ret
                          [] k = "option" -> option.ret
                          [] k = "mode"   -> mode.ret] @@ <<>>))

SettingsKeys == <<"google_api_key", "google_api_cs", "user_agent", "proxy", "grid_url">>

\* the validator validateSettings applies to one present property
validateSetting(key, value, nodeEnvNow) ==
    CASE key = "google_api_key" -> validateApiKey(value, TRUE)
      [] key = "google_api_cs"  -> validateApiKey(value, TRUE)
      [] key = "user_agent"     -> validateUserAgent(value)
      [] key = "proxy"          -> validateUrl(value, TRUE, nodeEnvNow)
      [] key = "grid_url"       -> validateUrl(value, TRUE, nodeEnvNow)

validateSettings(settings, nodeEnvNow) ==
    IF ~Truthy(settings) \/ TypeOf(settings) # "object"
    THEN Throw(ValidationError("settings", "Invalid settings object"))
    ELSE LET present == {i \in 1..Len(SettingsKeys) : Prop(settings, SettingsKeys[i]) # Undefined}
             each == [i \in present |->
                        validateSetting(SettingsKeys[i], Prop(settings, SettingsKeys[i]), nodeEnvNow)]
                     @@ <<>>
             bad == {i \in present : Threw(each[i])}
         IN  IF bad # {}
             THEN each[CHOOSE i \in bad : \A j \in bad : i <= j]
             ELSE Return(Obj([k \in {SettingsKeys[i] : i \in present} |->
                                each[CHOOSE i \in present : SettingsKeys[i] = k].ret] @@ <<>>))

\* s.replace(/ch/g, rep) for a single character ch
RECURSIVE ReplaceAll(_, _, _)
ReplaceAll(s, ch, rep) ==
    IF s = "" THEN ""
    ELSE (IF CharAt(s, 1) = ch THEN rep ELSE CharAt(s, 1)) \o ReplaceAll(From(s, 2), ch, rep)

\* the replacements with & taken last
AmpersandLast ==
    << <<"<", "&lt;">>, <<">", "&gt;">>, <<"\"", "&quot;">>, <<"'", "&#x27;">>,
       <<"/", "&#x2F;">>, <<"&", "&amp;">> >>

\* the chain of .replace calls of sanitizeText, in the order they are applied
EntityReplacements ==
    << <<"&", "&amp;">>, <<"<", "&lt;">>, <<">", "&gt;">>, <<"\"", "&quot;">>,
       <<"'", "&#x27;">>, <<"/", "&#x2F;">> >>

RECURSIVE ReplaceEach(_, _)
ReplaceEach(s, replacements) ==
    IF replacements = <<>> THEN s
    ELSE ReplaceEach(ReplaceAll(s, Head(replacements)[1], Head(replacements)[2]),
                     Tail(replacements))

\* sanitizeText(text); of /[\x00-\x1F\x7F-\x9F]/ a string of the model can hold ControlChars
sanitizeText(text) ==
    IF ~Truthy(text) \/ TypeOf(text) # "string"
    THEN Return(Str(""))
    ELSE Return(Str(ReplaceEach(RemoveChars(text.str, ControlChars), EntityReplacements)))

(***************************************************************************)
(* modules/config.js                                                       *)
(***************************************************************************)
\* Object.keys(CONFIG_SCHEMA), in declaration order
SchemaKeys ==
    <<"PORT", "HOST", "VERBOSE", "GOOGLE_API_KEY", "GOOGLE_API_CS", "SELENIUM_GRID_URL",
      "HTTP_PROXY", "USER_AGENT", "SESSION_SECRET", "ENABLE_CORS", "CORS_ORIGINS",
      "RATE_LIMIT_MAX", "RATE_LIMIT_WINDOW", "DETECTION_LEVEL", "MAX_FAST_WORKERS",
      "MAX_SLOW_WORKERS", "MAX_SPECIAL_WORKERS", "REQUEST_TIMEOUT", "ENABLE_FILE_LOGGING",
      "LOG_DIR", "LOG_LEVEL", "SITES_DATA_PATH", "NAMES_DATA_PATH", "LANGUAGES_DATA_PATH",
      "DICT_DATA_PATH", "COUNTRIES_DATA_PATH">>

NumberField(default, min, max) ==
    [type |-> "number", default |-> Num(default), ranged |-> TRUE, min |-> min, max |-> max,
     minLength |-> 0, pattern |-> "", enum |-> <<>>, required |-> FALSE]

StringField(default, pattern, enum) ==
    [type |-> "string", default |-> Str(default), ranged |-> FALSE, min |-> 0, max |-> 0,
     minLength |-> 0, pattern |-> pattern, enum |-> enum, required |-> FALSE]

BooleanField(default) ==
    [type |-> "boolean", default |-> Bool(default), ranged |-> FALSE, min |-> 0, max |-> 0,
     minLength |-> 0, pattern |-> "", enum |-> <<>>, required |-> FALSE]

\* CONFIG_SCHEMA.CORS_ORIGINS.default is one array object, created when the module is
\* imported; every config that takes the default refers to that same object
DefaultCorsOrigins == <<"http://localhost:3000">>

\* CONFIG_SCHEMA[key]. requiredAtImport is the value the module computed for
\* SESSION_SECRET.required when it was imported: process.env.NODE_ENV === 'production'
CONFIG_SCHEMA(key, requiredAtImport) ==
    CASE key = "PORT"                -> NumberField(9005, 1024, 65535)
      [] key = "HOST"                -> StringField("localhost", "host", <<>>)
      [] key = "VERBOSE"             -> BooleanField(FALSE)
      [] key = "GOOGLE_API_KEY"      -> StringField("", "", <<>>)
      [] key = "GOOGLE_API_CS"       -> StringField("", "", <<>>)
      [] key = "SELENIUM_GRID_URL"   -> StringField("", "url", <<>>)
      [] key = "HTTP_PROXY"          -> StringField("", "url", <<>>)
      [] key = "USER_AGENT"          -> StringField(DefaultUserAgent, "", <<>>)
      [] key = "SESSION_SECRET"      -> [StringField("", "", <<>>) EXCEPT
                                           !.minLength = 32, !.required = requiredAtImport]
      [] key = "ENABLE_CORS"         -> BooleanField(FALSE)
      [] key = "CORS_ORIGINS"        -> [type |-> "array", default |-> Ref("default"),
                                         ranged |-> FALSE, min |-> 0, max |-> 0, minLength |-> 0,
                                         pattern |-> "", enum |-> <<>>, required |-> FALSE]
      [] key = "RATE_LIMIT_MAX"      -> NumberField(100, 1, 10000)
      [] key = "RATE_LIMIT_WINDOW"   -> NumberField(15, 1, 1440)
      [] key = "DETECTION_LEVEL"     -> StringField("high", "", <<"extreme", "high", "normal", "low">>)
      [] key = "MAX_FAST_WORKERS"    -> NumberField(15, 1, 50)
      [] key = "MAX_SLOW_WORKERS"    -> NumberField(8, 1, 20)
      [] key = "MAX_SPECIAL_WORKERS" -> NumberField(5, 1, 20)
      [] key = "REQUEST_TIMEOUT"     -> NumberField(5, 1, 60)
      [] key = "ENABLE_FILE_LOGGING" -> BooleanField(TRUE)
      [] key = "LOG_DIR"             -> StringField("./logs", "", <<>>)
      [] key = "LOG_LEVEL"           -> StringField("info", "", <<"error", "warn", "info", "debug">>)
      [] key = "SITES_DATA_PATH"     -> StringField("./data/sites.json", "", <<>>)
      [] key = "NAMES_DATA_PATH"     -> StringField("./data/names.json", "", <<>>)
      [] key = "LANGUAGES_DATA_PATH" -> StringField("./data/languages.json", "", <<>>)
      [] key = "DICT_DATA_PATH"      -> StringField("./data/dict.json", "", <<>>)
      [] key = "COUNTRIES_DATA_PATH" -> StringField("./data/countries.json", "", <<>>)

\* schema.pattern.test(value) for the two patterns of the schema
\*   "host": /^(localhost|127\.0\.0\.1|0\.0\.0\.0|[\w\.-]+)$/
\*   "url":  /^(https?:\/\/.+|)$/
PatternTest(pattern, value) ==
    CASE pattern = "host" ->
            value # "" /\ AllIn(value, LowerLetters \cup UpperLetters \cup Digits \cup {"_", ".", "-"})
      [] pattern = "url" ->
            \/ value = ""
            \/ \E pre \in {"http://", "https://"} :
                  /\ StartsWith(value, pre)
                  /\ Len(value) > Len(pre)
                  /\ ~Includes(From(value, Len(pre) + 1), "\n")
                  /\ ~Includes(From(value, Len(pre) + 1), "\r")
      [] OTHER -> TRUE

NaN == [nan |-> TRUE]

\* Number(value) for a string holding a decimal integer; any other text is NaN.
\* (Fractions, exponents, hexadecimal and Infinity are outside the modelled inputs.)
NumberOf(s) ==
    LET t == Trim(s)
    IN  IF t = "" THEN Num(0)
        ELSE IF IsDigits(t) THEN Num(ParseDigits(t))
        ELSE IF StartsWith(t, "-") /\ IsDigits(From(t, 2)) THEN Num(0 - ParseDigits(From(t, 2)))
        ELSE NaN

\* a coercion that knows 'true' in lower case only
BooleanOfExact(raw) == raw = "true" \/ raw = "1"

\* value.toLowerCase() === 'true' || value === '1'
BooleanOf(raw) == ToLowerCase(raw) = "true" \/ raw = "1"

\* value.split(separator).map(v => v.trim()).filter(v => v) is TrimmedSegments

\* validateValue(key, value, schema): value is process.env[key], undefined or a string
validateValue(key, value, schema) ==
    IF schema.required /\ ~Truthy(value)
    THEN [valid |-> FALSE, errors |-> <<key \o " is required but not set">>, value |-> schema.default]
    ELSE IF ~Truthy(value)
    THEN [valid |-> TRUE, errors |-> <<>>, value |-> schema.default]
    ELSE CASE schema.type = "number" ->
                LET num == NumberOf(value.str)
                IN  IF num = NaN
                    THEN [valid |-> FALSE,
                          errors |-> <<key \o " must be a number, got: " \o value.str>>,
                          value |-> value]
                    ELSE LET low == IF schema.ranged /\ num.num < schema.min
                                    THEN <<key \o " must be >= " \o ToString(schema.min)
                                             \o ", got: " \o ToString(num.num)>>
                                    ELSE <<>>
                             high == IF schema.ranged /\ num.num > schema.max
                                     THEN <<key \o " must be <= " \o ToString(schema.max)
                                              \o ", got: " \o ToString(num.num)>>
                                     ELSE <<>>
                         IN  [valid |-> low \o high = <<>>, errors |-> low \o high, value |-> num]
           [] schema.type = "boolean" ->
                [valid |-> TRUE, errors |-> <<>>,
                 value |-> Bool(BooleanOf(value.str))]
           [] schema.type = "string" ->
                LET short == IF schema.minLength # 0 /\ Len(value.str) < schema.minLength
                             THEN <<key \o " must be at least " \o ToString(schema.minLength)
                                      \o " characters, got: " \o ToString(Len(value.str))>>
                             ELSE <<>>
                    format == IF schema.pattern # "" /\ ~PatternTest(schema.pattern, value.str)
                              THEN <<key \o " has invalid format">>
                              ELSE <<>>
                    member == IF schema.enum # <<>>
                                   /\ ~\E i \in 1..Len(schema.enum) : schema.enum[i] = value.str
                              THEN <<key \o " must be one of: " \o Join(schema.enum, ", ")
                                       \o ", got: " \o value.str>>
                              ELSE <<>>
                    errors == short \o format \o member
                IN  [valid |-> errors = <<>>, errors |-> errors, value |-> value]
           [] schema.type = "array" ->
                [valid |-> TRUE, errors |-> <<>>, value |-> Arr(TrimmedSegments(value.str, ","))]

\* new ConfigValidationError(errors)
ConfigValidationError(errors) ==
    [cls     |-> "ConfigValidationError",
     name    |-> "ConfigValidationError",
     message |-> "Configuration validation failed:\n"
                   \o Join([i \in 1..Len(errors) |-> "  - " \o errors[i]], "\n"),
     errors  |-> errors]

\* process.env[key]
EnvGet(penv, key) == IF key \in DOMAIN penv THEN Str(penv[key]) ELSE Undefined

\* dotenv.config(): the variables of the .env file that the environment does not hold yet
DotenvConfig(penv, file) == penv @@ file

\* path.resolve(p) with the working directory /srv/app
Resolve(p) ==
    IF StartsWith(p, "/") THEN p
    ELSE IF StartsWith(p, "./") THEN "/srv/app/" \o From(p, 3)
    ELSE "/srv/app/" \o p

dataPaths == <<"SITES_DATA_PATH", "NAMES_DATA_PATH", "LANGUAGES_DATA_PATH", "DICT_DATA_PATH",
               "COUNTRIES_DATA_PATH">>

\* the per-field loop of loadConfig: every field's validateValue result, in schema order
FieldResults(penv, requiredAtImport) ==
    [i \in 1..Len(SchemaKeys) |->
        validateValue(SchemaKeys[i], EnvGet(penv, SchemaKeys[i]),
                      CONFIG_SCHEMA(SchemaKeys[i], requiredAtImport))] \o <<>>

\* a loop that stops at the first field that failed
RECURSIVE FirstFailureOnly(_, _)
FirstFailureOnly(results, i) ==
    IF i > Len(results) THEN <<>>
    ELSE IF results[i].errors # <<>> THEN results[i].errors
    ELSE FirstFailureOnly(results, i + 1)

\* a loop that records no failure
CollectNothing(results, i) == <<>>

\* errors.push(...result.errors) over all fields
RECURSIVE CollectErrors(_, _)
CollectErrors(results, i) ==
    IF i > Len(results) THEN <<>> ELSE results[i].errors \o CollectErrors(results, i + 1)

\* the number of bytes crypto.randomBytes is asked for; its hex form has twice as many characters
SecretBytes == 32

\* a load without the production check of the secret
SecretNeverMissing(penv, sessionSecret) == FALSE

\* process.env.NODE_ENV === 'production' && !config.SESSION_SECRET
SecretMissingInProduction(penv, sessionSecret) ==
    EnvGet(penv, "NODE_ENV") = Str("production") /\ ~Truthy(sessionSecret)

\* Value(e) is e, computed once
Value(singleton) == CHOOSE v \in singleton : TRUE

\* config[key] = result.value for every field
ConfigOf(results) ==
    [k \in {SchemaKeys[i] : i \in 1..Len(SchemaKeys)} |->
        results[CHOOSE i \in 1..Len(SchemaKeys) : SchemaKeys[i] = k].value] @@ <<>>

\* loadConfig() from the end of the field loop on: errors are the failures the loop
\* collected, config the object it filled
LoadChecked(errors, config, penv, paths, mkdirOk, secret) ==
    LET missingIdx == {i \in 1..Len(dataPaths) : Resolve(config[dataPaths[i]].str) \notin paths}
        missingFiles == SelectSeq([i \in 1..Len(dataPaths) |->
                                     IF i \in missingIdx
                                     THEN dataPaths[i] \o ": " \o Resolve(config[dataPaths[i]].str)
                                     ELSE ""],
                                  LAMBDA line : line # "")
        logDir == Resolve(config["LOG_DIR"].str)
        needMkdir == Truthy(config["ENABLE_FILE_LOGGING"]) /\ logDir \notin paths
        created == IF needMkdir /\ mkdirOk THEN {logDir} ELSE {}
        noSecret == ~Truthy(config["SESSION_SECRET"])
        verbose == Truthy(config["VERBOSE"])
    IN  IF errors # <<>>
        THEN [outcome |-> Throw(ConfigValidationError(errors)), created |-> {}, warned |-> <<>>]
        ELSE IF missingFiles # <<>>
        THEN [outcome |-> Throw(ConfigValidationError(<<"Required data files not found:">> \o missingFiles)),
              created |-> {}, warned |-> <<>>]
        ELSE IF needMkdir /\ ~mkdirOk
        THEN [outcome |-> Throw(ConfigValidationError(<<"Cannot create log directory: " \o logDir>>)),
              created |-> {}, warned |-> <<>>]
        ELSE IF SecretMissingInProduction(penv, config["SESSION_SECRET"])
        THEN [outcome |-> Throw(ConfigValidationError(
                            <<"SESSION_SECRET is required in production",
                              "Generate one with: node -e \"console.log(require('crypto').randomBytes(32).toString('hex'))\"">>)),
              created |-> created, warned |-> <<>>]
        ELSE IF noSecret
        THEN [outcome |-> Return(Obj([config EXCEPT !["SESSION_SECRET"] = Str(secret)])),
              created |-> created,
              warned |-> IF verbose THEN <<"Generated temporary SESSION_SECRET for development">>
                         ELSE <<>>]
        ELSE [outcome |-> Return(Obj(config)), created |-> created, warned |-> <<>>]

\* loadConfig() after dotenv.config(). penv is process.env, paths the files and
\* directories that exist, mkdirOk whether the log directory can be created, secret the
\* value crypto.randomBytes(32).toString('hex') yields if it is called.
\* Gives the outcome (the frozen config returned, or the error thrown), the directories
\* created and the lines written with console.warn.
loadConfig(penv, requiredAtImport, paths, mkdirOk, secret) ==
    Value({LoadChecked(CollectErrors(results, 1), ConfigOf(results), penv, paths, mkdirOk, secret) :
             results \in {FieldResults(penv, requiredAtImport)}})

NotInitialized ==
    [cls |-> "Error", name |-> "Error",
     message |-> "Configuration not initialized. Call loadConfig() first.",
     stack |-> StackOf("Error", "Configuration not initialized. Call loadConfig() first.")]

\* a read without the test of config
GetUnchecked(cfg, key) == Return(Prop(cfg, key))

\* get(key) with the module variable config = cfg
get(cfg, key) == IF ~Truthy(cfg) THEN Throw(NotInitialized) ELSE Return(Prop(cfg, key))

\* getAll()
getAll(cfg) == IF ~Truthy(cfg) THEN Throw(NotInitialized) ELSE Return(cfg)

MaskKeep == 10

\* a mask that appends one star per character of the secret
MaskSecretLonger(secret) ==
    IF secret = "" \/ Len(secret) <= MaskKeep THEN "***"
    ELSE SubSeq(secret, 1, MaskKeep) \o Repeat("*", Len(secret))

\* maskSecret(secret)
maskSecret(secret) ==
    IF secret = "" \/ Len(secret) <= MaskKeep THEN "***"
    ELSE SubSeq(secret, 1, MaskKeep) \o Repeat("*", Len(secret) - MaskKeep)

\* new URL(url) for an http(s) URL: its protocol, username, password, host and pathname,
\* or no URL at all (the constructor throws) when the text has no scheme or no host
ParseUrl(url) ==
    LET bySchemeSep == Split(url, "://")
        scheme == ToLowerCase(bySchemeSep[1])
        rest == Join(Tail(bySchemeSep), "://")
        authority == Before(rest, {"/", "?", "#"})
        byAt == Split(authority, "@")
        userinfo == IF Len(byAt) > 1 THEN Join(SubSeq(byAt, 1, Len(byAt) - 1), "@") ELSE ""
        hostport == ToLowerCase(byAt[Len(byAt)])
        defaultPort == IF scheme = "http" THEN ":80" ELSE ":443"
        portAt == IndexOf(hostport, defaultPort)
        host == IF portAt # 0 /\ portAt + Len(defaultPort) - 1 = Len(hostport)
                     /\ ~StartsWith(hostport, defaultPort)
                THEN SubSeq(hostport, 1, portAt - 1)
                ELSE hostport
        afterAuthority == From(rest, Len(authority) + 1)
        path == Before(afterAuthority, {"?", "#"})
    IN  IF Len(bySchemeSep) < 2 \/ scheme \notin {"http", "https"} \/ host = ""
             \/ (\E i \in 1..Len(host) : CharAt(host, i) \in (WhiteSpace \cup {"<", ">", "^", "|", "%"}))
        THEN [valid |-> FALSE, protocol |-> "", username |-> "", password |-> "", host |-> "",
              pathname |-> ""]
        ELSE [valid    |-> TRUE,
              protocol |-> scheme \o ":",
              username |-> Before(userinfo, {":"}),
              password |-> IF Includes(userinfo, ":")
                           THEN From(userinfo, IndexOf(userinfo, ":") + 1) ELSE "",
              host     |-> host,
              pathname |-> IF path = "" THEN "/" ELSE path]

\* maskUrl(url)
maskUrl(url) ==
    IF url = "" THEN ""
    ELSE LET parsed == ParseUrl(url)
         IN  IF ~parsed.valid THEN "***"
             ELSE IF parsed.username # "" \/ parsed.password # ""
             THEN parsed.protocol \o "//***.***@" \o parsed.host \o parsed.pathname
             ELSE url

\* the masking of getSanitized() applied to the properties c of an object
Sanitize(c) ==
    [c EXCEPT !["GOOGLE_API_KEY"] = IF Truthy(@) THEN Str(maskSecret(@.str)) ELSE @,
              !["SESSION_SECRET"] = IF Truthy(@) THEN Str("***HIDDEN***") ELSE @,
              !["HTTP_PROXY"]     = IF Truthy(@) THEN Str(maskUrl(@.str)) ELSE @]

\* getSanitized(): a shallow copy of config with the secrets masked
getSanitized(cfg) ==
    IF ~Truthy(cfg) THEN Throw(NotInitialized) ELSE Return(Obj(Sanitize(cfg.obj)))

(***************************************************************************)
(* modules/error-handler.js                                                *)
(***************************************************************************)
\* Object.values(ErrorTypes)
ErrorTypes ==
    {"validation_error", "authentication_error", "authorization_error", "not_found",
     "rate_limit_exceeded", "internal_error", "configuration_error", "network_error",
     "timeout_error"}

\* new AppError(type, message, statusCode, details)
AppError(type, message, statusCode, details) ==
    [cls        |-> "AppError",
     name       |-> "AppError",
     type       |-> type,
     message    |-> message,
     statusCode |-> statusCode,
     details    |-> details,
     stack      |-> StackOf("Error", message)]

\* err with one more own property (err.code = ..., err.statusCode = ...)
WithProp(err, key, value) == (key :> value) @@ err

Has(err, key) == key \in DOMAIN err

\* err.code === code
CodeIs(err, code) == Has(err, "code") /\ err.code = code

\* the rules with the transport signatures tested before the two error classes
ClassifyTransportFirst(err) ==
    IF CodeIs(err, "ECONNREFUSED") THEN "network"
    ELSE IF CodeIs(err, "ETIMEDOUT") \/ err.name = "TimeoutError" THEN "timeout"
    ELSE IF CodeIs(err, "ENOENT") THEN "not_found"
    ELSE IF err.name = "ValidationError" THEN "validation"
    ELSE IF err.cls = "AppError" THEN "application"
    ELSE "unknown"

\* the rule of createErrorResponse that err matches first, in the order of its
\* if statements
Classify(err) ==
    IF err.name = "ValidationError" THEN "validation"
    ELSE IF err.cls = "AppError" THEN "application"
    ELSE IF CodeIs(err, "ECONNREFUSED") THEN "network"
    ELSE IF CodeIs(err, "ETIMEDOUT") \/ err.name = "TimeoutError" THEN "timeout"
    ELSE IF CodeIs(err, "ENOENT") THEN "not_found"
    ELSE "unknown"

\* details attached in every mode
IncludeDetailsAlways(err, isDevelopment) == Truthy(err.details)

\* isDevelopment && err.details
IncludeDetails(err, isDevelopment) == isDevelopment /\ Truthy(err.details)

\* isDevelopment || verbose
DiscloseUnknown(isDevelopment, verbose) == isDevelopment \/ verbose

\* the status of an unknown failure without a look at the failure
UnknownStatusFixed(err) == 500

\* err.statusCode || 500
UnknownStatus(err) == IF Has(err, "statusCode") /\ err.statusCode # 0 THEN err.statusCode ELSE 500

\* the name of the failure's class in the place of its kind
NameOfAppError(err) == err.name

\* response.type = err.type
TypeOfAppError(err) == err.type

\* the record createErrorResponse builds for err; isDevelopment and verbose are the two
\* locals it computes first, now is new Date().toISOString()
BuildErrorResponse(err, isDevelopment, verbose, now) ==
    LET response == [error |-> TRUE, message |-> "An error occurred", type |-> "internal_error",
                     timestamp |-> now]
        rule == Classify(err)
    IN  CASE rule = "validation" ->
                [response EXCEPT
                   !.message = IF Has(err, "userMessage") /\ err.userMessage # ""
                               THEN err.userMessage ELSE err.message,
                   !.type = "validation_error"] @@ ("statusCode" :> 400)
          [] rule = "application" ->
                LET base == [response EXCEPT !.message = err.message, !.type = TypeOfAppError(err)]
                              @@ ("statusCode" :> err.statusCode)
                IN  IF IncludeDetails(err, isDevelopment)
                    THEN base @@ ("details" :> err.details)
                    ELSE base
          [] rule = "network" ->
                [response EXCEPT !.message = "Service temporarily unavailable",
                                 !.type = "network_error"] @@ ("statusCode" :> 503)
          [] rule = "timeout" ->
                [response EXCEPT !.message = "Request timeout",
                                 !.type = "timeout_error"] @@ ("statusCode" :> 504)
          [] rule = "not_found" ->
                [response EXCEPT !.message = "Resource not found",
                                 !.type = "not_found"] @@ ("statusCode" :> 404)
          [] OTHER ->
                IF DiscloseUnknown(isDevelopment, verbose)
                THEN [response EXCEPT !.message = err.message]
                       @@ [stack      |-> err.stack,
                           details    |-> Obj([name |-> Str(err.name),
                                               code |-> IF Has(err, "code") THEN Str(err.code)
                                                        ELSE Undefined]),
                           statusCode |-> UnknownStatus(err)]
                ELSE response @@ ("statusCode" :> UnknownStatus(err))

\* createErrorResponse(err, req) under process.env = penv and the module variable
\* config = cfg of config.js: getConfig('VERBOSE') throws while cfg is not initialized
createErrorResponse(err, penv, cfg, now) ==
    LET verbose == get(cfg, "VERBOSE")
    IN  IF Threw(verbose) THEN verbose
        ELSE Return(BuildErrorResponse(err, EnvGet(penv, "NODE_ENV") # Str("production"),
                                       Truthy(verbose.ret), now))

\* req.headers[name]: node keeps the names of incoming headers in lower case
HeaderOf(req, name) == IF name \in DOMAIN req.headers THEN Str(req.headers[name]) ELSE Undefined

\* getClientIp(req); req.remoteAddress is the address of the connection and its socket,
\* "" when there is none
getClientIp(req) ==
    IF "x-forwarded-for" \in DOMAIN req.headers
         /\ Split(req.headers["x-forwarded-for"], ",")[1] # ""
    THEN Split(req.headers["x-forwarded-for"], ",")[1]
    ELSE IF "x-real-ip" \in DOMAIN req.headers /\ req.headers["x-real-ip"] # ""
    THEN req.headers["x-real-ip"]
    ELSE IF req.remoteAddress # "" THEN req.remoteAddress
    ELSE "unknown"

\* a copy of the headers that keeps every header
KeepAllHeaders(headers) == headers

\* const safeHeaders = { ...req.headers }; delete safeHeaders.authorization;
\* delete safeHeaders.cookie
SafeHeaders(headers) ==
    [name \in DOMAIN headers \ {"authorization", "cookie"} |-> headers[name]] @@ <<>>

\* the logEntry object of logError as JSON.stringify renders it: a property whose value
\* is undefined is left out. context is the third argument, req is null or a request
logEntry(err, req, context, verbose, isProduction, now) ==
    [timestamp |-> now,
     level     |-> IF Truthy(Prop(context, "level")) THEN Prop(context, "level").str ELSE "error",
     message   |-> err.message,
     type      |-> IF Has(err, "type") /\ err.type # "" THEN err.type ELSE "unknown",
     name      |-> err.name]
    @@ (IF Has(err, "code") THEN [code |-> err.code] ELSE <<>>)
    @@ (IF Has(err, "statusCode") THEN [statusCode |-> err.statusCode] ELSE <<>>)
    @@ (IF req # Null
        THEN [request |-> [method |-> req.method, url |-> req.originalUrl, ip |-> getClientIp(req)]
                            @@ (IF "user-agent" \in DOMAIN req.headers
                                THEN [userAgent |-> req.headers["user-agent"]] ELSE <<>>),
              headers |-> SafeHeaders(req.headers)]
        ELSE <<>>)
    @@ (IF DOMAIN context.obj # {} THEN [context |-> context.obj] ELSE <<>>)
    @@ (IF verbose \/ ~isProduction THEN [stack |-> err.stack] ELSE <<>>)

\* the console and file part of logError: what is written to which sink, and the lines
\* console.error prints besides the entry. existing are the paths that exist:
\* fs.appendFileSync creates the file and fails when its directory is missing
WriteLog(entry, verbose, enableFileLogging, logDir, existing) ==
    [outcome |-> Return(Undefined),
     written |-> (IF verbose THEN <<[sink |-> "console", entry |-> entry]>> ELSE <<>>)
                 \o (IF enableFileLogging /\ logDir \in existing
                     THEN <<[sink |-> logDir \o "/error.log", entry |-> entry]>> ELSE <<>>),
     printed |-> (IF verbose THEN <<"--- Error Log ---", "-----------------">> ELSE <<>>)
                 \o (IF enableFileLogging /\ logDir \notin existing
                     THEN <<"Failed to write error log: ENOENT: no such file or directory, open '"
                              \o logDir \o "/error.log'">>
                     ELSE <<>>)]

\* logLevel === 'error' && context.level !== 'error'
SkipsLogging(logLevel, context) == logLevel = Str("error") /\ Prop(context, "level") # Str("error")

\* logError(err, req, context) under the module variable config = cfg and process.env = penv
logError(err, req, context, cfg, penv, existing, now) ==
    IF ~Truthy(cfg)
    THEN [outcome |-> Throw(NotInitialized), written |-> <<>>, printed |-> <<>>]
    ELSE IF SkipsLogging(Prop(cfg, "LOG_LEVEL"), context)
    THEN [outcome |-> Return(Undefined), written |-> <<>>, printed |-> <<>>]
    ELSE WriteLog(logEntry(err, req, context, Truthy(Prop(cfg, "VERBOSE")),
                           EnvGet(penv, "NODE_ENV") = Str("production"), now),
                  Truthy(Prop(cfg, "VERBOSE")), Truthy(Prop(cfg, "ENABLE_FILE_LOGGING")),
                  Resolve(Prop(cfg, "LOG_DIR").str), existing)

\* the rest of errorMiddleware once logError gave log and createErrorResponse gave
\* errorResponse: res.status(errorResponse.statusCode || 500).json(errorResponse)
SendErrorResponse(log, errorResponse) ==
    IF Threw(log.outcome) THEN log @@ [sent |-> <<>>]
    ELSE IF Threw(errorResponse) THEN [log EXCEPT !.outcome = errorResponse] @@ [sent |-> <<>>]
    ELSE log @@ [sent |-> <<[status |-> IF Has(errorResponse.ret, "statusCode")
                                           /\ errorResponse.ret.statusCode # 0
                                        THEN errorResponse.ret.statusCode ELSE 500,
                             body |-> errorResponse.ret]>>]

\* errorMiddleware(err, req, res, next): what it wrote, printed and sent, in that order
errorMiddleware(err, req, cfg, penv, existing, now) ==
    SendErrorResponse(logError(err, req, Obj(<<>>), cfg, penv, existing, now),
                      createErrorResponse(err, penv, cfg, now))

\* new Error(String(reason)) for a reason that is no Error
ErrorOf(reason) ==
    IF IsStr(reason)
    THEN [cls |-> "Error", name |-> "Error", message |-> reason.str,
          stack |-> StackOf("Error", reason.str)]
    ELSE reason

(***************************************************************************)
(* The process: its environment, the module state of config.js, the heap   *)
(* of array objects, what it printed, and the last operation of a caller.  *)
(***************************************************************************)
VARIABLES
    processEnv,             \* process.env: variable name -> string
    dotenvFile,             \* the variables of the .env file (none when dotenv or the file is missing)
    sessionSecretRequired,  \* CONFIG_SCHEMA.SESSION_SECRET.required, computed at import
    paths,                  \* the files and directories that exist
    mkdirOk,                \* whether the log directory can be created
    pc,                     \* "idle", "loading" (initConfig awaits), "ready", "rejected", "exited"
    initCalls,              \* the number of calls of initConfig so far
    config,                 \* the module variable config of config.js
    arrays,                 \* the heap: array object id -> its elements
    loadResult,             \* what the last loadConfig() returned or threw
    exitCode,               \* the status process.exit was called with, -1 while running
    stderr,                 \* the lines written with console.error and console.warn
    sanitizedCopy,          \* the object the last getSanitized() returned to its caller
    lastOp,                 \* the last operation of a caller and its result
    response,               \* the last outcome of the error middleware
    req,                    \* the request object the last request handler was given
    events,                 \* what the error handlers did, in order: entries written to a log
                            \* sink, responses sent, fatal conditions entered
    exitTimer,              \* whether a setTimeout(() => process.exit(1), 1000) is pending
    failures                \* the number of failures the error handlers were given so far

vars == <<processEnv, dotenvFile, sessionSecretRequired, paths, mkdirOk, pc, initCalls, config,
          arrays, loadResult, exitCode, stderr, sanitizedCopy, lastOp, response, req, events,
          exitTimer, failures>>

envVars == <<dotenvFile, sessionSecretRequired, mkdirOk>>

\* the state of the error handlers
handlerVars == <<req, events, exitTimer, failures>>

MaxInitCalls == 2
MaxArrayLen == 2

None == [none |-> TRUE]

NoOp == [fn |-> "none", arg |-> Undefined, nodeEnv |-> "", result |-> Return(Undefined)]

\* process.env.NODE_ENV as text, "" when it is not set
NodeEnv(penv) == IF "NODE_ENV" \in DOMAIN penv THEN penv["NODE_ENV"] ELSE ""

\* the value a reader sees: the elements of an array in place of its reference
Deref(heap, v) == IF IsRef(v) THEN Arr(heap[v.ref]) ELSE v

\* the two values crypto.randomBytes(32).toString('hex') takes in the model
RandomSecrets == {Repeat("a1", SecretBytes), Repeat("b2", SecretBytes)}

\* a catch block that rethrows every error
ExitsOnNothing(err) == FALSE

\* err instanceof ConfigValidationError, the test of initConfig's catch block
ExitsOnFailure(err) == err.cls = "ConfigValidationError"

\* initConfig() up to its await: loadConfig() starts and awaits import('dotenv')
InitConfigCall ==
    /\ pc \in {"idle", "ready"}
    /\ initCalls < MaxInitCalls
    /\ pc' = "loading"
    /\ initCalls' = initCalls + 1
    /\ UNCHANGED <<handlerVars, processEnv, envVars, paths, config, arrays, loadResult, exitCode, stderr,
                   sanitizedCopy, lastOp, response>>

\* the rest of initConfig(): dotenv.config(), the synchronous body of loadConfig(), then
\* either the assignment to config or the catch block
LoadConfigRun ==
    /\ pc = "loading"
    /\ \E secret \in RandomSecrets, penv \in {DotenvConfig(processEnv, dotenvFile)} :
        \E r \in {loadConfig(penv, sessionSecretRequired, paths, mkdirOk, secret)} :
          LET fresh == "parsed" \o ToString(initCalls)
              cors == IF Returned(r.outcome) THEN r.outcome.ret.obj["CORS_ORIGINS"] ELSE Undefined
              frozen == IF IsArr(cors)
                        THEN Obj([r.outcome.ret.obj EXCEPT !["CORS_ORIGINS"] = Ref(fresh)])
                        ELSE r.outcome.ret
          IN  /\ processEnv' = penv
              /\ paths' = paths \cup r.created
              /\ IF Returned(r.outcome)
                 THEN /\ config' = frozen
                      /\ arrays' = IF IsArr(cors) THEN (fresh :> cors.arr) @@ arrays ELSE arrays
                      /\ loadResult' = Return(frozen)
                      /\ pc' = "ready"
                      /\ stderr' = stderr \o r.warned
                      /\ UNCHANGED exitCode
                 ELSE /\ loadResult' = r.outcome
                      /\ UNCHANGED <<config, arrays>>
                      /\ IF ExitsOnFailure(r.outcome.thrown)
                         THEN /\ stderr' = stderr \o r.warned \o  \* the first line without its symbol
                                    <<"Configuration Error:\n",
                                      r.outcome.thrown.message,
                                      "\nPlease check your .env file or environment variables.",
                                      "Run with --config-help to see all available options.\n">>
                              /\ exitCode' = 1
                              /\ pc' = "exited"
                         ELSE /\ stderr' = stderr \o r.warned
                              /\ pc' = "rejected"
                              /\ UNCHANGED exitCode
    /\ UNCHANGED <<handlerVars, envVars, initCalls, sanitizedCopy, lastOp, response>>

Alive == pc # "exited"

ReadKeys == {"PORT", "VERBOSE", "SESSION_SECRET", "CORS_ORIGINS", "HTTP_PROXY"}

\* a caller calls get(key)
Get ==
    /\ Alive
    /\ \E key \in ReadKeys :
          lastOp' = [fn |-> "get", arg |-> Str(key), nodeEnv |-> NodeEnv(processEnv),
                     result |-> get(config, key)]
    /\ UNCHANGED <<handlerVars, processEnv, envVars, paths, pc, initCalls, config, arrays, loadResult,
                   exitCode, stderr, sanitizedCopy, response>>

\* a caller calls getAll()
GetAll ==
    /\ Alive
    /\ lastOp' = [fn |-> "getAll", arg |-> Undefined, nodeEnv |-> NodeEnv(processEnv),
                  result |-> getAll(config)]
    /\ UNCHANGED <<handlerVars, processEnv, envVars, paths, pc, initCalls, config, arrays, loadResult,
                   exitCode, stderr, sanitizedCopy, response>>

\* a caller calls getSanitized() and keeps the copy
GetSanitized ==
    /\ Alive
    /\ lastOp' = [fn |-> "getSanitized", arg |-> Undefined, nodeEnv |-> NodeEnv(processEnv),
                  result |-> getSanitized(config)]
    /\ sanitizedCopy' = IF Returned(getSanitized(config)) THEN getSanitized(config).ret
                        ELSE sanitizedCopy
    /\ UNCHANGED <<handlerVars, processEnv, envVars, paths, pc, initCalls, config, arrays, loadResult,
                   exitCode, stderr, response>>

(***************************************************************************)
(* What a caller can do with the objects it was handed.  Object.freeze is  *)
(* shallow: it makes the properties of config read-only and leaves the     *)
(* array config.CORS_ORIGINS refers to as it is; { ...config } copies the  *)
(* properties, so the copy refers to the same array.                       *)
(***************************************************************************)
MutationFns == {"config[key] = value", "config.CORS_ORIGINS.push(value)",
                "sanitized[key] = value", "sanitized.CORS_ORIGINS.push(value)"}

MutationValues == {Str("http://evil.example")}

\* cfg[key] = value on the frozen object (from initConfig() or getAll()), in strict mode
SetConfigField ==
    /\ Alive
    /\ Truthy(config)
    /\ \E key \in ReadKeys, value \in MutationValues :
          lastOp' = [fn |-> "config[key] = value", arg |-> Str(key), nodeEnv |-> NodeEnv(processEnv),
                     result |-> Throw(TypeError("Cannot assign to read only property '"
                                                  \o key \o "' of object"))]
    /\ UNCHANGED <<handlerVars, processEnv, envVars, paths, pc, initCalls, config, arrays, loadResult,
                   exitCode, stderr, sanitizedCopy, response>>

\* obj.CORS_ORIGINS.push(value) for obj the configuration object or the sanitized copy
PushTo(obj, fn) ==
    /\ Alive
    /\ Truthy(obj)
    /\ LET id == obj.obj["CORS_ORIGINS"].ref
       IN  /\ Len(arrays[id]) < MaxArrayLen
           /\ \E value \in MutationValues :
                 /\ arrays' = [arrays EXCEPT ![id] = Append(@, value.str)]
                 /\ lastOp' = [fn |-> fn, arg |-> value, nodeEnv |-> NodeEnv(processEnv),
                               result |-> Return(Num(Len(arrays[id]) + 1))]
    /\ UNCHANGED <<handlerVars, processEnv, envVars, paths, pc, initCalls, config, loadResult, exitCode,
                   stderr, sanitizedCopy, response>>

PushConfigArray == PushTo(config, "config.CORS_ORIGINS.push(value)")

PushCopyArray == PushTo(sanitizedCopy, "sanitized.CORS_ORIGINS.push(value)")

CopyKeys == {"SESSION_SECRET"}

\* sanitized[key] = value on the copy getSanitized() returned
SetCopyField ==
    /\ Alive
    /\ Truthy(sanitizedCopy)
    /\ \E key \in CopyKeys, value \in MutationValues :
          /\ sanitizedCopy' = Obj([sanitizedCopy.obj EXCEPT ![key] = value])
          /\ lastOp' = [fn |-> "sanitized[key] = value", arg |-> Str(key),
                        nodeEnv |-> NodeEnv(processEnv), result |-> Return(value)]
    /\ UNCHANGED <<handlerVars, processEnv, envVars, paths, pc, initCalls, config, arrays, loadResult,
                   exitCode, stderr, response>>

(***************************************************************************)
(* Callers of modules/validation.js.  A call records the value passed, the *)
(* mode the process is in and the outcome; a new call starts a new request *)
(* and clears the response of the previous one.                            *)
(***************************************************************************)
Absent == [absent |-> TRUE]

\* the object whose own properties are the entries of props that are not Absent
MkObj(props) == Obj([k \in {k \in DOMAIN props : props[k] # Absent} |-> props[k]] @@ <<>>)

UsernameInputs ==
    {Undefined, Null, Num(12345), Bool(TRUE), Arr(<<"johndoe">>), Str(""), Str("   "),
     Str("johndoe"), Str("  johndoe  "), Str("John_Doe-1.x"), Str("a.b"),
     Str("john..doe"), Str(".."), Str("john/../doe"), Str("john doe"), Str("john<doe>"),
     Str("dropbox"), Str("Selector"), Str("javascript"), Str("my-Script"), Str("UPDATE"),
     Str(Repeat("a", UsernameMaxLength)), Str(Repeat("a", UsernameMaxLength + 1)),
     Str(" " \o Repeat("a", UsernameMaxLength)), Str(Repeat("a", UsernameMaxLength) \o "\n"),
     Str(" " \o Repeat("a", UsernameMaxLength + 1))}

\* the URLs passed to validateUrl; kind says which case of the SSRF rule the URL is:
\* its scheme is not http(s), its host is a loopback/private/link-local one, or neither
UrlSamples ==
    {[url |-> "javascript:alert(1)", kind |-> "nonhttp"],
     [url |-> "ftp://example.com/file", kind |-> "nonhttp"],
     [url |-> "file:///etc/passwd", kind |-> "nonhttp"],
     [url |-> "gopher://example.com", kind |-> "nonhttp"],
     [url |-> "http://localhost:8080", kind |-> "private"],
     [url |-> "http://localhost", kind |-> "private"],
     [url |-> "http://127.0.0.1", kind |-> "private"],
     [url |-> "http://127.0.0.1:3000/admin", kind |-> "private"],
     [url |-> "http://10.0.0.1", kind |-> "private"],
     [url |-> "http://172.16.0.1", kind |-> "private"],
     [url |-> "http://172.31.255.255", kind |-> "private"],
     [url |-> "http://192.168.1.1", kind |-> "private"],
     [url |-> "http://[::1]/", kind |-> "private"],
     [url |-> "http://[::1]:8080/", kind |-> "private"],
     [url |-> "http://[fe80::1]/", kind |-> "private"],
     [url |-> "https://example.com", kind |-> "public"],
     [url |-> "  https://example.com  ", kind |-> "public"],
     [url |-> "http://example.com/path?q=1", kind |-> "public"],
     [url |-> "https://user:pw@example.com/", kind |-> "public"],
     [url |-> "http://172.32.0.1", kind |-> "public"],
     [url |-> "http://192.169.1.1", kind |-> "public"],
     [url |-> "http://8.8.8.8", kind |-> "public"],
     [url |-> "example.com", kind |-> "public"],
     [url |-> "not a url", kind |-> "public"]}

UrlInputs == {Str(u.url) : u \in UrlSamples} \cup {Undefined, Str(""), Num(8080)}

\* the values passed with { optional: true }
OptionalUrlInputs == {Undefined, Str(""), Num(8080), Str("https://example.com"), Str("http://10.0.0.1")}

\* request bodies: the values below for the four properties read
BodyUuids == {Absent, Str("abcde"), Num(12345)}
BodyStrings == {Absent, Str("johndoe"), Str("john,jane"), Str("john..doe"), Str("john, drop"),
                Num(12345), Bool(TRUE), Obj([first |-> Str("john")]),
                Arr(<<"john", "jane">>), Arr(<<",">>)}
BodyOptions == {Absent, Str("FindUserProfilesFast"), Str("Everything"), Num(1)}
BodyModes == {Absent, Str(" FAST "), Str("bogus"), Num(7)}

AnalyzeBodies ==
    {Undefined, Null, Str("uuid=abcde"), Num(1), Arr(<<>>)} \cup
    {MkObj([uuid |-> u, string |-> s, option |-> Absent, mode |-> Absent]) :
        u \in BodyUuids, s \in BodyStrings} \cup
    {MkObj([uuid |-> Str("abcde"), string |-> s, option |-> o, mode |-> m]) :
        s \in {Str("johndoe")}, o \in BodyOptions, m \in BodyModes}

SettingApiKeys == {Absent, Str("AIzaSyA-valid_key123"), Str("key with spaces!"), Num(5)}
SettingUserAgents == {Absent, Str("Mozilla/5.0 (X11; Linux)"), Num(1)}
SettingProxies == {Absent, Str("http://proxy.example.com:8080"), Str("http://127.0.0.1:8080"),
                   Num(8080), Bool(TRUE)}

SettingsInputs ==
    {Undefined, Null, Str("proxy"), Num(0), Arr(<<>>)} \cup
    {MkObj([google_api_key |-> k, user_agent |-> a, proxy |-> Absent]) :
        k \in SettingApiKeys, a \in SettingUserAgents} \cup
    {MkObj([google_api_key |-> k, user_agent |-> Absent, proxy |-> x]) :
        k \in {Absent, Num(5)}, x \in SettingProxies}

\* a call of the validator Validator, named fn, with the argument arg
Call(fn, arg, Validator(_)) ==
    /\ Alive
    /\ lastOp' = [fn |-> fn, arg |-> arg, nodeEnv |-> NodeEnv(processEnv),
                  result |-> Validator(arg)]
    /\ response' = None
    /\ UNCHANGED <<handlerVars, processEnv, envVars, paths, pc, initCalls, config, arrays, loadResult,
                   exitCode, stderr, sanitizedCopy>>

ValidateUsername ==
    \E username \in UsernameInputs :
        Call("validateUsername", username, validateUsername)

\* the values passed to validateUsernames
UsernamesInputs ==
    {Undefined, Num(5), Str(""), Str(" , ,"), Str("john,jane,bob"), Str(" john , jane ,, bob "),
     Str("john"), Str("john,,b@d,..,x"), Str(",, john ,drop_table, b@d"), Str("a.b,a..b"),
     Str(Join([i \in 1..MaxUsernames |-> "u"], ",")),
     Str(Join([i \in 1..MaxUsernames + 1 |-> "u"], ",")),
     Str(Join([i \in 1..MaxUsernames + 1 |-> "b@d"], ","))}

ValidateUsernames ==
    \E usernames \in UsernamesInputs :
        Call("validateUsernames", usernames, validateUsernames)

\* validateUrl(url) and validateUrl(url, { optional: true })
ValidateUrl ==
    \E url \in UrlInputs, optional \in BOOLEAN :
        /\ optional => url \in OptionalUrlInputs
        /\ Call(IF optional THEN "validateUrl optional" ELSE "validateUrl", url,
                LAMBDA u : validateUrl(u, optional, NodeEnv(processEnv)))

ValidateAnalyzeRequest ==
    \E body \in AnalyzeBodies :
        Call("validateAnalyzeRequest", body, validateAnalyzeRequest)

ValidateSettings ==
    \E settings \in SettingsInputs :
        Call("validateSettings", settings, LAMBDA s : validateSettings(s, NodeEnv(processEnv)))

\* the values passed to sanitizeText
TextInputs ==
    {Undefined, Null, Num(0), Num(42), Bool(TRUE), Arr(<<"<b>">>), Obj([text |-> Str("<b>")]),
     Str(""), Str("plain text"), Str("<script>alert(\"XSS\")</script>"),
     Str("Test & <b>bold</b>"), Str("He said \"hello\""), Str("It's mine"),
     Str("<img src=x onerror=\"alert(1)\">"), Str("test\" onclick=\"alert(1)\" data-x=\""),
     Str("&#60;script&#62;"), Str("%3Cscript%3E"), Str("test<svg/onload=alert(1)>"),
     Str("&lt;b&gt; &amp;amp;"), Str("a\tb\nc\rd\fe"), Str("\n\t"), Str("<\n/\t>"),
     Str("&"), Str("<"), Str(">"), Str("\""), Str("'"), Str("/"), Str("&<>\"'/"),
     Str("a/b/c"), Str("https://example.com/?q=1&r=2"), Str("javascript:alert(1)"),
     Str("a && b"), Str("1 < 2 > 0"), Str("\\x3cscript\\x3e")}

SanitizeText ==
    \E text \in TextInputs : Call("sanitizeText", text, sanitizeText)

\* the values passed to validateMode
ModeInputs ==
    {Undefined, Null, Str(""), Num(0), Bool(FALSE), Num(7), Bool(TRUE), Arr(<<"fast">>),
     Obj([mode |-> Str("fast")]), Str("fast"), Str("slow"), Str("special"), Str("FAST"),
     Str("Slow"), Str("sPeCiAl"), Str("SPECIAL"), Str(" slow "), Str("\tFast\n"), Str("   "),
     Str("invalid"), Str("faster"), Str("fast,slow"), Str("fast slow"), Str("f a s t"),
     Str("normal"), Str("0"), Str("undefined")}

ValidateMode ==
    \E mode \in ModeInputs : Call("validateMode", mode, validateMode)

(***************************************************************************)
(* Callers of createErrorResponse                                          *)
(***************************************************************************)
\* new Date().toISOString() at the time of the call
Timestamps == {"2025-01-01T00:00:00.000Z"}

SecretText == "connect ECONNREFUSED db:5432 password=hunter2"

\* new Error(message) with err.name = name
PlainError(name) ==
    [cls |-> "Error", name |-> name, message |-> SecretText, stack |-> StackOf(name, SecretText)]

ErrorNames == {"Error", "TypeError", "TimeoutError", "ValidationError"}
ErrorCodes == {"", "ECONNREFUSED", "ETIMEDOUT", "ENOENT", "EACCES"}
ErrorStatusCodes == {-1, 0, 404, 418, 503}

\* err with err.code = code, unless code is "", and err.statusCode = status, unless it is -1
Carrying(err, code, status) ==
    LET coded == IF code = "" THEN err ELSE WithProp(err, "code", code)
    IN  IF status = -1 THEN coded ELSE WithProp(coded, "statusCode", status)

AppErrors ==
    {AppError(type, "Profile not found for user 42", status, details) :
        type \in {"not_found", "rate_limit_exceeded"},
        status \in {404, 429},
        details \in {Null, Obj([field |-> Str("username")])}}

\* the AppErrors the module itself builds: notFoundHandler and the seven factories
FactoryErrors ==
    {AppError("not_found", "Endpoint not found", 404, Null),
     AppError("validation_error", "Username is required", 400, Obj([field |-> Str("username")])),
     AppError("not_found", "Profile not found", 404, Null),
     AppError("rate_limit_exceeded", "Too many requests, please try again later", 429, Null),
     AppError("rate_limit_exceeded", "Too many requests, please try again later", 429,
              Obj([retryAfter |-> Num(60)])),
     AppError("internal_error", "Internal server error", 500, Null),
     AppError("configuration_error", "Missing GOOGLE_API_KEY", 500, Null),
     AppError("network_error", "Network request failed", 503, Null),
     AppError("timeout_error", "Request timeout", 504, Null)}

\* the failure objects handed to createErrorResponse
Failures ==
    FactoryErrors \cup
    {Carrying(PlainError(name), code, status) :
        name \in ErrorNames, code \in ErrorCodes, status \in ErrorStatusCodes}
    \cup {Carrying(e, code, -1) : e \in AppErrors, code \in {"", "ECONNREFUSED", "ENOENT"}}
    \cup {Carrying(ValidationError("username", "Username is required"), code, -1) :
            code \in {"", "ENOENT"}}

Respond(err) ==
    /\ Alive
    /\ \E now \in Timestamps :
          response' = [err |-> err, nodeEnv |-> NodeEnv(processEnv),
                       out |-> createErrorResponse(err, processEnv, config, now)]
    /\ UNCHANGED <<handlerVars, processEnv, envVars, paths, pc, initCalls, config, arrays, loadResult,
                   exitCode, stderr, sanitizedCopy, lastOp>>

\* a caller hands a failure to createErrorResponse
CreateErrorResponse == \E err \in Failures : Respond(err)

\* the error the last validator call threw is handed to createErrorResponse
RespondToThrown == Threw(lastOp.result) /\ response = None /\ Respond(lastOp.result.thrown)

(***************************************************************************)
(* The error handlers of modules/error-handler.js: the Express error       *)
(* middleware and the two handlers registerGlobalHandlers installs.        *)
(***************************************************************************)
MaxFailures == 2

AuthorizationValue == "Bearer s3cr3t-token"
CookieValue == "session=4f2a9c"

\* the requests whose handling fails
Requests ==
    {[method |-> "POST", originalUrl |-> "/analyze_string", remoteAddress |-> "203.0.113.7",
      headers |-> ("user-agent" :> "curl/8.0") @@ ("content-type" :> "application/json")
                    @@ [authorization |-> AuthorizationValue, cookie |-> CookieValue]],
     [method |-> "GET", originalUrl |-> "/get_settings", remoteAddress |-> "",
      headers |-> ("x-forwarded-for" :> "198.51.100.4, 10.0.0.1") @@ [cookie |-> CookieValue]]}

\* the failures next(err) hands to the error middleware
RequestFailures ==
    {PlainError("Error"),
     AppError("not_found", "Profile not found for user 42", 404, Null)}

\* the exceptions that escape every handler, and the reasons of rejected promises
FatalErrors == {PlainError("TypeError")}
RejectionReasons == {Str("database unreachable"), PlainError("Error")}

\* the entries of written or sent as events of kind kind for the n-th failure
Tagged(records, kind, n) ==
    [i \in 1..Len(records) |-> records[i] @@ [kind |-> kind, failure |-> n]] \o <<>>

\* Express calls errorMiddleware(err, req, res, next) for a failed request. logError
\* deletes the two headers from its own copy, so the request object stays as it was.
\* When the middleware throws, nothing is sent by it.
ErrorMiddleware ==
    /\ Alive
    /\ failures < MaxFailures
    /\ \E err \in RequestFailures, request \in Requests, now \in Timestamps :
        \E r \in {errorMiddleware(err, request, config, processEnv, paths, now)} :
          /\ req' = request
          /\ events' = events \o Tagged(r.written, "log", failures + 1)
                              \o Tagged(r.sent, "send", failures + 1)
          /\ stderr' = stderr \o r.printed
          /\ lastOp' = [fn |-> "errorMiddleware", arg |-> [err |-> err, req |-> request],
                        nodeEnv |-> NodeEnv(processEnv), result |-> r.outcome]
    /\ failures' = failures + 1
    /\ UNCHANGED <<processEnv, envVars, paths, pc, initCalls, config, arrays, loadResult,
                   exitCode, sanitizedCopy, response, exitTimer>>

\* handleUncaughtException(err) after printedBefore was printed and eventsBefore happened.
\* A listener of 'uncaughtException' that throws ends the process with status 7.
Uncaught(err, printedBefore, eventsBefore, fn, now) ==
    \E log \in {logError(err, Null,
                         Obj([level |-> Str("critical"), type |-> Str("uncaught_exception")]),
                         config, processEnv, paths, now)} :
      /\ stderr' = stderr \o printedBefore \o <<"--- Uncaught Exception ---", err.stack>>
                          \o log.printed
      /\ events' = events \o eventsBefore
                          \o <<[kind |-> "fatal", failure |-> failures + 1,
                                cause |-> "uncaughtException"]>>
                          \o Tagged(log.written, "log", failures + 1)
      /\ IF Threw(log.outcome)
         THEN pc' = "exited" /\ exitCode' = 7 /\ UNCHANGED exitTimer
         ELSE exitTimer' = TRUE /\ UNCHANGED <<pc, exitCode>>
      /\ lastOp' = [fn |-> fn, arg |-> [err |-> err], nodeEnv |-> NodeEnv(processEnv),
                    result |-> log.outcome]

\* process emits 'uncaughtException'
UncaughtException ==
    /\ Alive
    /\ failures < MaxFailures
    /\ \E err \in FatalErrors, now \in Timestamps :
          Uncaught(err, <<>>, <<>>, "handleUncaughtException", now)
    /\ failures' = failures + 1
    /\ UNCHANGED <<processEnv, envVars, paths, initCalls, config, arrays, loadResult,
                   sanitizedCopy, response, req>>

\* process emits 'unhandledRejection': handleUnhandledRejection(reason, promise). An
\* exception of the listener is itself an uncaught exception.
UnhandledRejection ==
    /\ Alive
    /\ failures < MaxFailures
    /\ \E reason \in RejectionReasons, now \in Timestamps :
        \E err \in {ErrorOf(reason)} :
        \E log \in {logError(err, Null,
                             Obj([level |-> Str("critical"), type |-> Str("unhandled_rejection"),
                                  promise |-> Str("[object Promise]")]),
                             config, processEnv, paths, now)} :
          IF Threw(log.outcome)
          THEN Uncaught(log.outcome.thrown, <<"--- Unhandled Rejection ---", err.stack>>,
                        <<[kind |-> "fatal", failure |-> failures + 1,
                           cause |-> "unhandledRejection"]>>,
                        "handleUnhandledRejection", now)
          ELSE /\ stderr' = stderr \o <<"--- Unhandled Rejection ---", err.stack>> \o log.printed
               /\ events' = events \o <<[kind |-> "fatal", failure |-> failures + 1,
                                         cause |-> "unhandledRejection"]>>
                                   \o Tagged(log.written, "log", failures + 1)
               /\ lastOp' = [fn |-> "handleUnhandledRejection", arg |-> [err |-> err],
                             nodeEnv |-> NodeEnv(processEnv), result |-> log.outcome]
               /\ UNCHANGED <<pc, exitCode, exitTimer>>
    /\ failures' = failures + 1
    /\ UNCHANGED <<processEnv, envVars, paths, initCalls, config, arrays, loadResult,
                   sanitizedCopy, response, req>>

\* the timer of handleUncaughtException expires: process.exit(1)
ExitTimerFires ==
    /\ Alive
    /\ exitTimer
    /\ pc' = "exited"
    /\ exitCode' = 1
    /\ exitTimer' = FALSE
    /\ UNCHANGED <<processEnv, envVars, paths, initCalls, config, arrays, loadResult, stderr,
                   sanitizedCopy, lastOp, response, req, events, failures>>

\* the environment: the log directory is removed while the process runs
RemoveLogDir ==
    /\ Alive
    /\ Truthy(config)
    /\ Resolve(Prop(config, "LOG_DIR").str) \in paths
    /\ paths' = paths \ {Resolve(Prop(config, "LOG_DIR").str)}
    /\ UNCHANGED <<processEnv, envVars, pc, initCalls, config, arrays, loadResult, exitCode,
                   stderr, sanitizedCopy, lastOp, response, handlerVars>>

(***************************************************************************)
(* Initial states: the process right after the modules were imported, for  *)
(* a range of environments, .env files and file systems.                   *)
(***************************************************************************)
NotSet == "<not set>"

\* the environment holding the variables of vals that are set
MkEnv(vals) == [k \in {k \in DOMAIN vals : vals[k] # NotSet} |-> vals[k]] @@ <<>>

ValidSecret == Repeat("s3", 16)
ShortSecret == "tooshort"

LogDir == "/srv/app/logs"

\* the five data files at their default places
DataFiles == {Resolve(CONFIG_SCHEMA(dataPaths[i], FALSE).default.str) : i \in 1..Len(dataPaths)}

Scenario(env, file, existing, canMkdir) ==
    [env |-> MkEnv(env), file |-> MkEnv(file), paths |-> existing, mkdirOk |-> canMkdir]

\* session secret and mode, from the environment and from the .env file
SecretScenarios ==
    {Scenario([NODE_ENV |-> mode, SESSION_SECRET |-> secret, VERBOSE |-> verbose],
              [NODE_ENV |-> fileMode, SESSION_SECRET |-> fileSecret],
              DataFiles \cup {LogDir}, TRUE) :
        mode \in {NotSet, "development", "production"},
        secret \in {NotSet, "", ShortSecret, ValidSecret},
        verbose \in {"true"},
        fileMode \in {NotSet, "production"},
        fileSecret \in {NotSet, ValidSecret}}

\* well-formed and malformed values of other fields
FieldScenarios ==
    {Scenario([NODE_ENV |-> mode, SESSION_SECRET |-> ValidSecret, PORT |-> port,
               LOG_LEVEL |-> level, CORS_ORIGINS |-> origins, HTTP_PROXY |-> proxy],
              [PORT |-> NotSet], DataFiles \cup {LogDir}, TRUE) :
        mode \in {NotSet},
        port \in {NotSet, "80", "abc", "8080"},
        level \in {NotSet, "verbose"},
        origins \in {NotSet, "https://a.example"},
        proxy \in {NotSet, "http://user:pw@proxy.example:8080/"}}

\* missing data files and log directories
FileScenarios ==
    {Scenario([NODE_ENV |-> ms[1], SESSION_SECRET |-> ms[2], ENABLE_FILE_LOGGING |-> logging],
              [PORT |-> NotSet], existing, canMkdir) :
        ms \in {<<"production", ValidSecret>>, <<NotSet, NotSet>>},
        logging \in {NotSet, "false"},
        existing \in {DataFiles \cup {LogDir}, DataFiles, {LogDir},
                      (DataFiles \ {"/srv/app/data/sites.json"}) \cup {LogDir}},
        canMkdir \in BOOLEAN}

\* several things wrong at once: a malformed field, a missing data file, and a mode
\* that the .env file turns into production without a secret
CompoundScenarios ==
    {Scenario([SESSION_SECRET |-> secret, PORT |-> port],
              [NODE_ENV |-> fileMode], existing, TRUE) :
        secret \in {NotSet, ValidSecret},
        port \in {NotSet, "abc"},
        fileMode \in {NotSet, "production"},
        existing \in {DataFiles \cup {LogDir},
                      (DataFiles \ {"/srv/app/data/sites.json"}) \cup {LogDir}}}

\* secrets of every shape in the fields getSanitized() returns
SanitizeScenarios ==
    {Scenario([NODE_ENV |-> mode, SESSION_SECRET |-> ValidSecret, GOOGLE_API_KEY |-> key,
               HTTP_PROXY |-> proxy, SELENIUM_GRID_URL |-> grid],
              [PORT |-> NotSet], DataFiles \cup {LogDir}, TRUE) :
        mode \in {NotSet, "production"},
        key \in {NotSet, "AIzaSyA-10", "AIzaSyA-valid_key123"},
        proxy \in {NotSet, "http://proxy.example:8080", "http://user:pw@proxy.example:8080/",
                   "https://user@Proxy.Example:443/pac?token=t0k3n#top", "http://bad host"},
        grid \in {NotSet, "http://admin:pw@grid.example:4444/wd/hub"}}

\* a secret that has 32 characters only with the white space around it
PaddedSecret == Repeat(" ", 12) \o ShortSecret \o Repeat(" ", 12)

\* the raw values of the boolean fields
BooleanScenarios ==
    {Scenario([SESSION_SECRET |-> ValidSecret, VERBOSE |-> verbose,
               ENABLE_FILE_LOGGING |-> logging],
              [PORT |-> NotSet], DataFiles \cup {LogDir}, TRUE) :
        verbose \in {NotSet, "", "true", "TRUE", "tRuE", "1", "0", "false", "yes", "on",
                     " true ", "11", "True "},
        logging \in {NotSet, "", "false", "TRUE", "0", "no"}}

\* string fields with and without white space around their values
StringScenarios ==
    {Scenario([NODE_ENV |-> mode, SESSION_SECRET |-> secret, LOG_LEVEL |-> level, HOST |-> host],
              [PORT |-> NotSet], DataFiles \cup {LogDir}, TRUE) :
        mode \in {NotSet, "production"},
        secret \in {ValidSecret, " " \o ValidSecret \o " ", PaddedSecret, ShortSecret},
        level \in {NotSet, "debug", " debug ", "DEBUG"},
        host \in {NotSet, "example.com", " example.com "}}

\* numeric fields at and beyond their limits, next to a boolean field
NumberScenarios ==
    {Scenario([SESSION_SECRET |-> ValidSecret, PORT |-> port, REQUEST_TIMEOUT |-> timeout,
               ENABLE_CORS |-> cors],
              [PORT |-> NotSet], DataFiles \cup {LogDir}, TRUE) :
        port \in {NotSet, "1024", "65535", "1023", "65536", " 8080 ", " ", "-1", "abc", "0"},
        timeout \in {NotSet, "1", "60", "61"},
        cors \in {"yes", "TRUE"}}

\* a configuration that loads, in each mode and with each VERBOSE setting
ServingScenarios ==
    {Scenario([NODE_ENV |-> mode, SESSION_SECRET |-> ValidSecret, VERBOSE |-> verbose],
              [PORT |-> NotSet], DataFiles \cup {LogDir}, TRUE) :
        mode \in {NotSet, "development", "test", "production"},
        verbose \in {NotSet, "false", "true", "1"}}

InitOf(scenarios) ==
    /\ \E sc \in scenarios :
          /\ processEnv = sc.env
          /\ dotenvFile = sc.file
          /\ paths = sc.paths
          /\ mkdirOk = sc.mkdirOk
          /\ sessionSecretRequired = (NodeEnv(sc.env) = "production")
    /\ pc = "idle"
    /\ initCalls = 0
    /\ config = Undefined
    /\ arrays = ("default" :> DefaultCorsOrigins)
    /\ loadResult = None
    /\ exitCode = -1
    /\ stderr = <<>>
    /\ sanitizedCopy = Undefined
    /\ lastOp = NoOp
    /\ response = None
    /\ req = Null
    /\ events = <<>>
    /\ exitTimer = FALSE
    /\ failures = 0

\* the configuration life cycle and the readers of the snapshot
Init == InitOf(SecretScenarios \cup FieldScenarios \cup FileScenarios \cup CompoundScenarios)

Next ==
    \/ InitConfigCall
    \/ LoadConfigRun
    \/ Get
    \/ GetAll
    \/ GetSanitized
    \/ SetConfigField
    \/ PushConfigArray
    \/ PushCopyArray
    \/ SetCopyField

Spec == Init /\ [][Next]_vars

\* failures handed to createErrorResponse
InitErr == InitOf(ServingScenarios)

NextErr ==
    \/ InitConfigCall
    \/ LoadConfigRun
    \/ CreateErrorResponse

SpecErr == InitErr /\ [][NextErr]_vars

\* requests validated by modules/validation.js and the rendering of their failures
InitVal == InitOf({sc \in ServingScenarios : "VERBOSE" \notin DOMAIN sc.env /\ NodeEnv(sc.env) # "test"})

NextVal ==
    \/ InitConfigCall
    \/ LoadConfigRun
    \/ ValidateUsername
    \/ ValidateUsernames
    \/ ValidateUrl
    \/ ValidateAnalyzeRequest
    \/ ValidateSettings
    \/ RespondToThrown

SpecVal == InitVal /\ [][NextVal]_vars

\* free text and modes handed to the two stateless field functions
InitTxt == InitOf({sc \in ServingScenarios : "VERBOSE" \notin DOMAIN sc.env})

NextTxt ==
    \/ InitConfigCall
    \/ LoadConfigRun
    \/ SanitizeText
    \/ ValidateMode

SpecTxt == InitTxt /\ [][NextTxt]_vars

\* the snapshot shown to clients
InitSan == InitOf(SanitizeScenarios)

NextSan ==
    \/ InitConfigCall
    \/ LoadConfigRun
    \/ GetSanitized
    \/ GetAll

SpecSan == InitSan /\ [][NextSan]_vars

\* raw values of every type, loaded and read
InitCfg == InitOf(BooleanScenarios \cup StringScenarios \cup NumberScenarios)

NextCfg ==
    \/ InitConfigCall
    \/ LoadConfigRun
    \/ Get
    \/ GetAll

SpecCfg == InitCfg /\ [][NextCfg]_vars

\* failed requests and fatal conditions, for each LOG_LEVEL, sink and mode
LogScenarios ==
    {Scenario([NODE_ENV |-> mode, SESSION_SECRET |-> ValidSecret, VERBOSE |-> verbose,
               LOG_LEVEL |-> level, ENABLE_FILE_LOGGING |-> logging],
              [PORT |-> NotSet], DataFiles \cup {LogDir}, TRUE) :
        mode \in {NotSet, "production"},
        verbose \in {NotSet, "true"},
        level \in {NotSet, "error", "debug"},
        logging \in {NotSet, "false"}}

InitLog == InitOf(LogScenarios)

NextLog ==
    \/ InitConfigCall
    \/ LoadConfigRun
    \/ ErrorMiddleware
    \/ UncaughtException
    \/ UnhandledRejection
    \/ ExitTimerFires
    \/ RemoveLogDir

SpecLog == InitLog /\ [][NextLog]_vars

\* the event loop runs a timer that has expired
SpecLogLive == SpecLog /\ WF_vars(ExitTimerFires)

(***************************************************************************)
(* Properties                                                              *)
(***************************************************************************)
\* createErrorResponse returned a record for the failure in response.err
Rendered == response # None /\ Returned(response.out)

\* the failure matches none of the rules: no ValidationError, no AppError, no transport
\* signature
Unclassified(err) ==
    /\ err.name \notin {"ValidationError", "TimeoutError"}
    /\ err.cls # "AppError"
    /\ ~(Has(err, "code") /\ err.code \in {"ECONNREFUSED", "ETIMEDOUT", "ENOENT"})

\* C1: in production mode the record for an unclassified failure has exactly the message
\* 'An error occurred' and neither a stack nor details, whatever VERBOSE is set to.
C1_ProductionGeneric ==
    (Rendered /\ response.nodeEnv = "production" /\ Unclassified(response.err)) =>
        /\ response.out.ret.message = "An error occurred"
        /\ "stack" \notin DOMAIN response.out.ret
        /\ "details" \notin DOMAIN response.out.ret

\* SESSION_SECRET is absent or empty once the .env file was merged in
SecretUnset == ~Truthy(EnvGet(processEnv, "SESSION_SECRET"))

\* nothing but the session secret can make the load fail: no other variable is set and
\* the data files and the log directory exist
OtherwiseLoadable ==
    /\ DOMAIN processEnv \subseteq {"NODE_ENV", "SESSION_SECRET", "VERBOSE"}
    /\ DataFiles \cup {LogDir} \subseteq paths

ByteText == {h \o l : h \in HexDigits, l \in HexDigits}

\* C2: with SESSION_SECRET absent or empty, a load in production mode (production when
\* the schema was built, or only after the .env file was merged) fails and no snapshot
\* exists; a load in any other mode succeeds, if nothing else is wrong, with a random
\* secret of 32 bytes in hexadecimal in place of the missing one.
C2_SecretRequiredInProduction ==
    (loadResult # None /\ SecretUnset) =>
        IF sessionSecretRequired \/ NodeEnv(processEnv) = "production"
        THEN /\ Threw(loadResult)
             /\ config = Undefined
             /\ pc = "exited"
        ELSE OtherwiseLoadable =>
                /\ Returned(loadResult)
                /\ pc \in {"ready", "loading"}
                /\ config = loadResult.ret
                /\ LET secret == config.obj["SESSION_SECRET"].str
                   IN  /\ Len(secret) = 2 * SecretBytes
                       /\ \A i \in 1..SecretBytes : SubSeq(secret, 2 * i - 1, 2 * i) \in ByteText

\* production only through the .env file: the load failed for the missing secret
C2_Witness ==
    /\ loadResult # None /\ SecretUnset
    /\ ~sessionSecretRequired /\ NodeEnv(processEnv) = "production"
    /\ Threw(loadResult) /\ config = Undefined

\* a development load went through with a synthesized secret
C2_WitnessSynthesized ==
    /\ loadResult # None /\ SecretUnset
    /\ NodeEnv(processEnv) # "production"
    /\ Returned(loadResult) /\ get(config, "SESSION_SECRET") \in {Return(Str(x)) : x \in RandomSecrets}

\* C3: when loadConfig fails, initConfig has printed the list of failures, the process
\* has exited with a non-zero status, no snapshot was published, and no reader has
\* returned a value.
C3_LoadFailureIsFatal ==
    (loadResult # None /\ Threw(loadResult)) =>
        /\ pc = "exited"
        /\ exitCode > 0
        /\ \E i \in 1..Len(stderr) : stderr[i] = loadResult.thrown.message
        /\ \A i \in 1..Len(loadResult.thrown.errors) :
              Includes(loadResult.thrown.message, loadResult.thrown.errors[i])
        /\ config = Undefined
        /\ lastOp.fn \in {"get", "getAll", "getSanitized"} => Threw(lastOp.result)

\* a load failed with two failures at once after a reader was turned away
C3_Witness ==
    /\ loadResult # None /\ Threw(loadResult)
    /\ Len(loadResult.thrown.errors) >= 2
    /\ pc = "exited"
    /\ lastOp.fn = "get"

\* what get(key) gives a reader: the value, with the elements of an array
Readable(cfg, heap, key) ==
    IF Returned(get(cfg, key)) THEN Return(Deref(heap, get(cfg, key).ret)) ELSE get(cfg, key)

\* the step is one of the four attempts to modify an object the module handed out
MutationStep == pc' = pc /\ lastOp' # lastOp /\ lastOp'.fn \in MutationFns

\* C4: after initConfig succeeded, no attempt to modify an object the module handed out
\* (the object of initConfig/getAll, the CORS_ORIGINS array, the copy of getSanitized)
\* changes what get(key) returns for any key.
C4_MutationsInvisible ==
    [][(pc = "ready" /\ MutationStep) =>
          \A key \in ReadKeys : Readable(config', arrays', key) = Readable(config, arrays, key)]_vars

HasKind(s, kind) == \E u \in UrlSamples : u.url = s /\ u.kind = kind

OtherMode(nodeEnv) == IF nodeEnv = "production" THEN "development" ELSE "production"

\* C5: validateUrl rejects a URL whose scheme is not http or https in every mode; it
\* rejects a URL with a loopback, private or link-local host if and only if the mode is
\* production; and for any other URL its verdict is the same in both modes.
C5_SsrfRule ==
    (lastOp.fn = "validateUrl" /\ IsStr(lastOp.arg)) =>
        /\ HasKind(lastOp.arg.str, "nonhttp") => Threw(lastOp.result)
        /\ HasKind(lastOp.arg.str, "private") =>
              (Threw(lastOp.result) <=> lastOp.nodeEnv = "production")
        /\ HasKind(lastOp.arg.str, "public") =>
              (Threw(lastOp.result) <=>
                 Threw(validateUrl(lastOp.arg, FALSE, OtherMode(lastOp.nodeEnv))))

\* the text has one of the four defects of a username
UsernameDefect(s) ==
    \/ \E i \in 1..Len(s) - 1 : SubSeq(s, i, i + 1) = ".."
    \/ \E k \in 1..Len(UsernameBlacklist) :
          Includes(ToLowerCase(s), ToLowerCase(UsernameBlacklist[k]))
    \/ \E i \in 1..Len(s) : CharAt(s, i) \notin UsernameChars
    \/ Len(s) > UsernameMaxLength

\* the last call threw a ValidationError and, where createErrorResponse rendered it, the
\* record is a validation_error with status 400
FailsAsValidationError ==
    /\ Threw(lastOp.result)
    /\ IsValidationError(lastOp.result.thrown)
    /\ Rendered =>
          /\ response.err = lastOp.result.thrown
          /\ response.out.ret.type = "validation_error"
          /\ response.out.ret.statusCode = 400

C7_OnlyValidationErrors ==
    (lastOp.fn \in {"validateAnalyzeRequest", "validateSettings"} /\ Threw(lastOp.result)) =>
        FailsAsValidationError

\* the rule the specification gives a failure: the first one it matches, in the order
\* ValidationError, AppError, connection refused, timeout, resource missing
FirstRule(err) ==
    LET matches == <<err.name = "ValidationError",
                     err.cls = "AppError",
                     Has(err, "code") /\ err.code = "ECONNREFUSED",
                     (Has(err, "code") /\ err.code = "ETIMEDOUT") \/ err.name = "TimeoutError",
                     Has(err, "code") /\ err.code = "ENOENT",
                     TRUE>>
    IN  CHOOSE i \in 1..6 : matches[i] /\ \A j \in 1..(i - 1) : ~matches[j]

\* type, statusCode and message of a record
Triple(rec) == <<rec.type, rec.statusCode, rec.message>>

\* C8: createErrorResponse treats a failure by the first rule it matches in the order
\* ValidationError, AppError, ECONNREFUSED (network_error, 503, 'Service temporarily
\* unavailable'), ETIMEDOUT or TimeoutError (timeout_error, 504, 'Request timeout'),
\* ENOENT (not_found, 404, 'Resource not found'), unclassified; a failure that matches
\* several rules gets type, status and message of the earliest one only.
C8_FirstMatchingRule ==
    Rendered =>
        LET err == response.err
            rec == response.out.ret
        IN  CASE FirstRule(err) = 1 ->
                    /\ rec.type = "validation_error"
                    /\ rec.statusCode = 400
                    /\ rec.message = IF Has(err, "userMessage") THEN err.userMessage
                                     ELSE err.message
              [] FirstRule(err) = 2 -> Triple(rec) = <<err.type, err.statusCode, err.message>>
              [] FirstRule(err) = 3 ->
                    Triple(rec) = <<"network_error", 503, "Service temporarily unavailable">>
              [] FirstRule(err) = 4 -> Triple(rec) = <<"timeout_error", 504, "Request timeout">>
              [] FirstRule(err) = 5 -> Triple(rec) = <<"not_found", 404, "Resource not found">>
              [] FirstRule(err) = 6 -> rec.type = "internal_error"

\* an AppError that carries the code ECONNREFUSED was rendered with its own type
C8_Witness ==
    /\ Rendered
    /\ response.err.cls = "AppError"
    /\ Has(response.err, "code") /\ response.err.code = "ECONNREFUSED"
    /\ response.out.ret.type = "rate_limit_exceeded"

\* C9: for an AppError, type, statusCode and message of the record are the error's own,
\* and the record has a details field if and only if the mode is not production and
\* the error has details; in production the details are never in the record.
C9_AppErrorRecord ==
    (Rendered /\ response.err.cls = "AppError") =>
        LET err == response.err
            rec == response.out.ret
        IN  /\ rec.type = err.type
            /\ rec.statusCode = err.statusCode
            /\ rec.message = err.message
            /\ "details" \in DOMAIN rec <=>
                  (response.nodeEnv # "production" /\ err.details # Null)
            /\ "details" \in DOMAIN rec => rec.details = err.details

\* an AppError with details was rendered in production
C9_Witness ==
    /\ Rendered
    /\ response.err.cls = "AppError"
    /\ response.err.details # Null
    /\ response.nodeEnv = "production"
    /\ "details" \notin DOMAIN response.out.ret

SinkOpen ==
    /\ Truthy(config)
    /\ \/ Truthy(Prop(config, "VERBOSE"))
       \/ /\ Truthy(Prop(config, "ENABLE_FILE_LOGGING"))
          /\ Resolve(Prop(config, "LOG_DIR").str) \in paths

\* the events the step added
NewEvents == SubSeq(events', Len(events) + 1, Len(events'))

\* the step is a call of the handler fn for a new failure
HandlerStep(fn) == failures' = failures + 1 /\ lastOp'.fn = fn

\* C11: whenever errorMiddleware handles a failure while a log sink takes entries,
\* an entry for that failure is written, once per sink, and every such write comes
\* before the response is sent, whatever LOG_LEVEL is configured.
C11_LoggedOnceBeforeSend ==
    [][(HandlerStep("errorMiddleware") /\ SinkOpen) =>
          LET new == NewEvents
              logs == {i \in DOMAIN new : new[i].kind = "log"}
              sends == {i \in DOMAIN new : new[i].kind = "send"}
          IN  /\ logs # {}
              /\ sends # {}
              /\ \A i \in logs, j \in sends : i < j
              /\ \A i, k \in logs : new[i].sink = new[k].sink => i = k]_vars

FatalSeen == \E i \in DOMAIN events : events[i].kind = "fatal"

\* C13: after an uncaught exception and after an unhandled rejection, an entry of level
\* critical is written (where a sink takes entries) and the process eventually exits;
\* a failure handled by the error middleware starts no exit.
C13_FatalLoggedThenExit ==
    /\ [][((HandlerStep("handleUncaughtException") \/ HandlerStep("handleUnhandledRejection"))
             /\ SinkOpen) =>
            \E i \in DOMAIN NewEvents :
                NewEvents[i].kind = "log" /\ NewEvents[i].entry.level = "critical"]_vars
    /\ FatalSeen ~> (pc = "exited")
    /\ [][HandlerStep("errorMiddleware") => (exitTimer' = exitTimer /\ pc' = pc)]_vars

\* initConfig failed with the failure list of a ConfigValidationError
LoadFailed == loadResult # None /\ Threw(loadResult) /\ loadResult.thrown.cls = "ConfigValidationError"

Range(seq) == {seq[i] : i \in DOMAIN seq}

\* C14: the failure list of a failed startup holds every failure that applies: the
\* failures of all fields, the missing-data-files failure when a data file is missing,
\* and the missing-secret failure when the mode is production and the secret is empty.
C14_FailureListComplete ==
    LoadFailed =>
        \A results \in {FieldResults(processEnv, sessionSecretRequired)} :
        \A errors \in {Range(loadResult.thrown.errors)} :
            /\ \A i \in DOMAIN results : Range(results[i].errors) \subseteq errors
            /\ (\E i \in DOMAIN dataPaths : Resolve(results[CHOOSE k \in DOMAIN SchemaKeys :
                                                   SchemaKeys[k] = dataPaths[i]].value.str) \notin paths)
                  => "Required data files not found:" \in errors
            /\ (NodeEnv(processEnv) = "production"
                  /\ ~Truthy(results[CHOOSE k \in DOMAIN SchemaKeys :
                                        SchemaKeys[k] = "SESSION_SECRET"].value))
                  => "SESSION_SECRET is required in production" \in errors

C16_SnapshotCreatedOnce ==
    [][(Truthy(config) /\ pc = "loading" /\ pc' # "exited") =>
          \A key \in DOMAIN config.obj :
              Deref(arrays', get(config', key).ret) = Deref(arrays, get(config, key).ret)]_vars

\* getSanitized() returned a copy of the snapshot
Sanitized == lastOp.fn = "getSanitized" /\ Returned(lastOp.result) /\ Truthy(config)

\* the fields of the snapshot that hold a URL
UrlFields == {"HTTP_PROXY", "SELENIUM_GRID_URL"}

\* shown is text that lets through no more of secret than its first 10 characters
AtMostPrefixShown(secret, shown) ==
    IF Len(secret) <= 10 THEN shown = "***"
    ELSE /\ Len(shown) = Len(secret)
         /\ \A i \in 11..Len(shown) : CharAt(shown, i) = "*"

\* C17: the copy getSanitized returns discloses no secret: SESSION_SECRET is the fixed
\* placeholder, GOOGLE_API_KEY shows at most its first 10 characters, no URL field
\* carries the user name or password of the snapshot's URL while its scheme and host
\* are those of the snapshot, and every other field equals the snapshot's.
C17_NoSecretDisclosed ==
    Sanitized =>
        \A c \in {config.obj}, out \in {lastOp.result.ret.obj} :
            /\ Truthy(c["SESSION_SECRET"]) => out["SESSION_SECRET"] = Str("***HIDDEN***")
            /\ Truthy(c["GOOGLE_API_KEY"]) =>
                  AtMostPrefixShown(c["GOOGLE_API_KEY"].str, out["GOOGLE_API_KEY"].str)
            /\ \A f \in UrlFields :
                  \A was \in {ParseUrl(c[f].str)}, is \in {ParseUrl(out[f].str)} :
                      (was.valid /\ (was.username # "" \/ was.password # "")) =>
                          /\ is.valid
                          /\ is.password = ""
                          /\ is.username # was.username
                          /\ is.protocol = was.protocol
                          /\ is.host = was.host
            /\ \A f \in DOMAIN c \ ({"SESSION_SECRET", "GOOGLE_API_KEY"} \cup UrlFields) :
                  out[f] = c[f]

\* C18: masking is idempotent: the masking of getSanitized applied to the copy it
\* returned gives that copy again, and maskSecret and maskUrl map their own output for
\* the key and the URLs of the snapshot to itself.
C18_ProjectionIdempotent ==
    Sanitized =>
        /\ Sanitize(lastOp.result.ret.obj) = lastOp.result.ret.obj
        /\ \A key \in {maskSecret(config.obj["GOOGLE_API_KEY"].str)} : maskSecret(key) = key
        /\ \A f \in UrlFields :
              \A url \in {maskUrl(config.obj[f].str)} : maskUrl(url) = url

\* a copy was returned in which a key longer than 10 characters and a proxy URL with
\* credentials are masked
C18_Witness ==
    /\ Sanitized
    /\ Len(config.obj["GOOGLE_API_KEY"].str) > 10
    /\ ParseUrl(config.obj["HTTP_PROXY"].str).username = "user"
    /\ lastOp.result.ret.obj["GOOGLE_API_KEY"] = Str("AIzaSyA-va**********")
    /\ Includes(lastOp.result.ret.obj["HTTP_PROXY"].str, "//***.***@proxy.example")

\* s is a username the rules accept: 1 to 100 characters of [a-zA-Z0-9._-], no '..',
\* no denylisted keyword
WellFormedUsername(s) == Len(s) >= 1 /\ Len(s) <= 100 /\ ~UsernameDefect(s)

C19_WitnessPunctuation ==
    /\ lastOp.fn = "validateUsername"
    /\ lastOp.arg = Str("John_Doe-1.x")
    /\ lastOp.result = Return(lastOp.arg)

\* the segments of a comma-separated text, trimmed, without the empty ones
KeptSegments(text) ==
    LET parts == Split(text, ",")
    IN  SelectSeq([i \in DOMAIN parts |-> Trim(parts[i])] \o <<>>, LAMBDA u : u # "")

\* C20: validateUsernames returns the trimmed non-empty segments of its input in input
\* order when all of them are well formed (1 to 50 of them); when one is not, it throws
\* a ValidationError naming the 1-based position, among the kept segments, of the first
\* that is not.
C20_BatchInOrder ==
    (lastOp.fn = "validateUsernames" /\ IsStr(lastOp.arg)) =>
        \A kept \in {KeptSegments(lastOp.arg.str)} :
        \A bad \in {{i \in DOMAIN kept : ~WellFormedUsername(kept[i])}} :
            IF bad = {} /\ Len(kept) >= 1 /\ Len(kept) <= 50
            THEN lastOp.result = Return(Arr(kept))
            ELSE /\ Threw(lastOp.result)
                 /\ IsValidationError(lastOp.result.thrown)
                 /\ lastOp.result.thrown.field = "usernames"
                 /\ (Len(kept) >= 1 /\ Len(kept) <= 50) =>
                       \E first \in bad :
                           /\ \A i \in bad : first <= i
                           /\ StartsWith(lastOp.result.thrown.message,
                                         "Username #" \o ToString(first) \o " is invalid: ")

\* a batch whose first and second segments are empty and whose third element is the
\* first invalid one was rejected with position 2
C20_Witness ==
    /\ lastOp.fn = "validateUsernames"
    /\ lastOp.arg = Str(",, john ,drop_table, b@d")
    /\ Threw(lastOp.result)
    /\ StartsWith(lastOp.result.thrown.message, "Username #2 is invalid: Invalid username: ")

\* the batch of the specification's example came back in input order
C20_WitnessExample ==
    /\ lastOp.fn = "validateUsernames"
    /\ lastOp.arg = Str("john,jane,bob")
    /\ lastOp.result = Return(Arr(<<"john", "jane", "bob">>))

\* the text a character of the input becomes: nothing for a control character, its
\* entity for one of the six special characters, itself otherwise
EntityOf(c) ==
    CASE c \in ControlChars -> ""
      [] c = "&"  -> "&amp;"
      [] c = "<"  -> "&lt;"
      [] c = ">"  -> "&gt;"
      [] c = "\"" -> "&quot;"
      [] c = "'"  -> "&#x27;"
      [] c = "/"  -> "&#x2F;"
      [] OTHER    -> c

RECURSIVE Escaped(_)
Escaped(s) == IF s = "" THEN "" ELSE EntityOf(CharAt(s, 1)) \o Escaped(From(s, 2))

\* C21: sanitizeText never throws and always returns a string: the empty string for an
\* absent or non-string input, and for a string input a text without control characters
\* and without a literal <, >, ", ' or /, in which every such character of the input
\* stands as its entity and every & of the input as &amp; (no entity is escaped twice).
C21_SanitizeTextTotal ==
    lastOp.fn = "sanitizeText" =>
        /\ Returned(lastOp.result)
        /\ IsStr(lastOp.result.ret)
        /\ ~IsStr(lastOp.arg) => lastOp.result.ret = Str("")
        /\ IsStr(lastOp.arg) =>
              /\ \A i \in 1..Len(lastOp.result.ret.str) :
                    CharAt(lastOp.result.ret.str, i)
                        \notin ControlChars \cup {"<", ">", "\"", "'", "/"}
              /\ lastOp.result.ret.str = Escaped(lastOp.arg.str)

\* a text with an ampersand and a tag came back with each of them as an entity
C21_Witness ==
    /\ lastOp.fn = "sanitizeText"
    /\ lastOp.arg = Str("Test & <b>bold</b>")
    /\ lastOp.result = Return(Str("Test &amp; &lt;b&gt;bold&lt;&#x2F;b&gt;"))

\* a text of control characters and special characters came back without the former
C21_WitnessControl ==
    /\ lastOp.fn = "sanitizeText"
    /\ lastOp.arg = Str("<\n/\t>")
    /\ lastOp.result = Return(Str("&lt;&#x2F;&gt;"))

\* C22: for a text that contains an HTML tag or an event-handler attribute, the output of
\* sanitizeText contains neither the tag opener '<img' nor the handler name 'onerror' or
\* 'onclick'.
C22_NoTagNoHandler ==
    (lastOp.fn = "sanitizeText" /\ IsStr(lastOp.arg)
        /\ \E part \in {"<img", "onerror", "onclick"} : Includes(lastOp.arg.str, part)) =>
        \A part \in {"<img", "onerror", "onclick"} : ~Includes(lastOp.result.ret.str, part)

\* C24: validateMode returns 'fast' for an absent or empty mode, returns the lower-cased
\* name for 'fast', 'slow' and 'special' written in any letter case (white space around
\* the name is trimmed, as for every field), and fails with a ValidationError for every
\* other value; every value it returns is one of fast, slow and special.
C24_ModeContract ==
    lastOp.fn = "validateMode" =>
        \E name \in {IF IsStr(lastOp.arg) THEN ToLowerCase(Trim(lastOp.arg.str)) ELSE ""} :
            /\ lastOp.arg \in {Undefined, Null, Str("")} => lastOp.result = Return(Str("fast"))
            /\ name \in {"fast", "slow", "special"} => lastOp.result = Return(Str(name))
            /\ (lastOp.arg \notin {Undefined, Null, Str("")}
                    /\ name \notin {"fast", "slow", "special"}) =>
                  /\ Threw(lastOp.result)
                  /\ IsValidationError(lastOp.result.thrown)
            /\ Returned(lastOp.result) =>
                  lastOp.result.ret \in {Str("fast"), Str("slow"), Str("special")}

C23_WitnessUnclassified ==
    /\ Rendered
    /\ Unclassified(response.err)
    /\ response.nodeEnv # "production"
    /\ response.out.ret.type = "internal_error"
    /\ "stack" \in DOMAIN response.out.ret

\* C25: for every failure errorMiddleware handles, a classified response record is sent,
\* also when the logging step fails: the append to the log file fails, or logError
\* itself raises because of the failure, the request or the state of the configuration.
C25_ResponseDespiteLogFailure ==
    [][HandlerStep("errorMiddleware") =>
          \E i \in DOMAIN NewEvents :
              /\ NewEvents[i].kind = "send"
              /\ NewEvents[i].body.error = TRUE
              /\ NewEvents[i].status = NewEvents[i].body.statusCode]_vars

\* the part of C25 the code keeps: with the configuration initialized, a response is sent
\* for every failure errorMiddleware handles, also when the append to the log file fails
C25_ResponseWhenInitialized ==
    [][(HandlerStep("errorMiddleware") /\ Truthy(config)) =>
          \E i \in DOMAIN NewEvents : NewEvents[i].kind = "send"]_vars

\* C27: validateUsernames tests the number of elements before it validates any of them:
\* a list with more than 50 non-empty segments fails with the count failure, also when
\* elements of it are invalid, and a list with exactly 50 valid segments is accepted.
C27_CountBeforeElements ==
    (lastOp.fn = "validateUsernames" /\ IsStr(lastOp.arg)) =>
        \A kept \in {KeptSegments(lastOp.arg.str)} :
            /\ Len(kept) > 50 =>
                  /\ Threw(lastOp.result)
                  /\ IsValidationError(lastOp.result.thrown)
                  /\ lastOp.result.thrown.message = "Maximum 50 usernames allowed per request"
            /\ (Len(kept) = 50 /\ \A i \in DOMAIN kept : WellFormedUsername(kept[i])) =>
                  lastOp.result = Return(Arr(kept))

\* a list of 51 segments, each of them invalid, was rejected for its length
C27_Witness ==
    /\ lastOp.fn = "validateUsernames"
    /\ IsStr(lastOp.arg)
    /\ Len(KeptSegments(lastOp.arg.str)) = 51
    /\ KeptSegments(lastOp.arg.str)[1] = "b@d"
    /\ Threw(lastOp.result)
    /\ lastOp.result.thrown.message = "Maximum 50 usernames allowed per request"

\* a list of exactly 50 valid segments came back whole
C27_WitnessFifty ==
    /\ lastOp.fn = "validateUsernames"
    /\ Returned(lastOp.result)
    /\ Len(lastOp.result.ret.arr) = 50

\* the names of the schema's fields of type type
FieldsOfType(type) ==
    {SchemaKeys[i] : i \in {i \in 1..Len(SchemaKeys) : CONFIG_SCHEMA(SchemaKeys[i], FALSE).type = type}}

\* the value satisfies the rules the schema has for a field of its type
MeetsRules(value, schema) ==
    CASE schema.type = "number" ->
            /\ DOMAIN value = {"num"}
            /\ schema.ranged => (value.num >= schema.min /\ value.num <= schema.max)
      [] schema.type = "boolean" -> DOMAIN value = {"bool"}
      [] schema.type = "string" ->
            /\ IsStr(value)
            /\ schema.pattern # "" => PatternTest(schema.pattern, value.str)
            /\ schema.enum # <<>> => \E i \in 1..Len(schema.enum) : schema.enum[i] = value.str
      [] OTHER -> IsRef(value) \/ IsArr(value)

\* C26: every snapshot a successful loadConfig returns is total and valid: it has a value
\* for every field of CONFIG_SCHEMA, every number within the field's minimum and maximum,
\* every enumerated field a member of its enumeration, every patterned field a match of
\* its pattern, and SESSION_SECRET a text of at least 32 characters, in every mode.
C26_SnapshotTotalAndValid ==
    Returned(loadResult) =>
        /\ DOMAIN loadResult.ret.obj = Range(SchemaKeys)
        /\ \A key \in Range(SchemaKeys) :
              MeetsRules(loadResult.ret.obj[key], CONFIG_SCHEMA(key, sessionSecretRequired))
        /\ IsStr(loadResult.ret.obj["SESSION_SECRET"])
        /\ Len(loadResult.ret.obj["SESSION_SECRET"].str) >= 32

\* a load with PORT at its upper limit and REQUEST_TIMEOUT at its lower one succeeded
C26_Witness ==
    /\ Returned(loadResult)
    /\ "PORT" \in DOMAIN processEnv /\ processEnv["PORT"] = "65535"
    /\ loadResult.ret.obj["PORT"] = Num(65535)
    /\ loadResult.ret.obj["REQUEST_TIMEOUT"] = Num(1)

\* a load with a LOG_LEVEL outside the enumeration gave no snapshot
C26_WitnessRejected ==
    /\ Threw(loadResult)
    /\ "LOG_LEVEL" \in DOMAIN processEnv /\ processEnv["LOG_LEVEL"] = "DEBUG"
    /\ config = Undefined

C28_WitnessOther ==
    /\ Returned(loadResult)
    /\ "VERBOSE" \in DOMAIN processEnv /\ processEnv["VERBOSE"] = " true "
    /\ loadResult.ret.obj["VERBOSE"] = Bool(FALSE)

\* a load failed for another field while a boolean field held a value that is not 'true'
C28_WitnessNoFailure ==
    /\ Threw(loadResult)
    /\ "ENABLE_CORS" \in DOMAIN processEnv /\ processEnv["ENABLE_CORS"] = "yes"

\* the environment with the values of the string fields trimmed
TrimmedEnv(penv) ==
    [k \in DOMAIN penv |-> IF k \in FieldsOfType("string") THEN Trim(penv[k]) ELSE penv[k]] @@ <<>>

\* C29: the string rules of the configuration validator are applied to the trimmed value:
\* white space around the value of a string field never changes whether the load
\* succeeds, and the snapshot holds the trimmed value.
C29_StringRulesOnTrimmedValue ==
    (pc \in {"ready", "rejected", "exited"} /\ loadResult # None) =>
        \E trimmed \in {loadConfig(TrimmedEnv(processEnv), sessionSecretRequired, paths, mkdirOk,
                                   Repeat("a1", SecretBytes))} :
            /\ Returned(loadResult) <=> Returned(trimmed.outcome)
            /\ Returned(loadResult) =>
                  \A key \in FieldsOfType("string") \cap DOMAIN processEnv :
                      processEnv[key] # "" =>
                          loadResult.ret.obj[key] = Str(Trim(processEnv[key]))

\* the step is a call of one of the three readers
ReaderStep == lastOp' # lastOp /\ lastOp'.fn \in {"get", "getAll", "getSanitized"}

\* cfg is a snapshot that went through the whole of loadConfig: the object the last
\* successful load returned, with a value for every field of the schema
CompleteSnapshot(cfg) ==
    /\ loadResult = Return(cfg)
    /\ DOMAIN cfg.obj = Range(SchemaKeys)
    /\ \A key \in Range(SchemaKeys) : cfg.obj[key] # Undefined
    /\ Len(cfg.obj["SESSION_SECRET"].str) >= 32

\* C30: under every interleaving of initConfig with the readers, a call of get, getAll or
\* getSanitized either fails with 'Configuration not initialized' or reads from a
\* complete, validated snapshot; the module variable only ever changes from one such
\* snapshot (or none) to another, when a load ends, so no reader sees a configuration
\* that is partly built.
C30_ReadersSeeAllOrNothing ==
    [][/\ ReaderStep =>
            IF config = Undefined
            THEN /\ Threw(lastOp'.result)
                 /\ StartsWith(lastOp'.result.thrown.message, "Configuration not initialized")
            ELSE /\ CompleteSnapshot(config)
                 /\ Returned(lastOp'.result)
                 /\ lastOp'.fn = "get" => lastOp'.result.ret = config.obj[lastOp'.arg.str]
                 /\ lastOp'.fn = "getAll" => lastOp'.result.ret = config
                 /\ lastOp'.fn = "getSanitized" =>
                        DOMAIN lastOp'.result.ret.obj = DOMAIN config.obj
       /\ config' # config =>
            /\ pc = "loading"
            /\ pc' = "ready"
            /\ loadResult' = Return(config')
            /\ DOMAIN config'.obj = Range(SchemaKeys)]_vars

\* a reader called while the first load was under way failed
C30_Witness ==
    /\ pc = "loading"
    /\ initCalls = 1
    /\ config = Undefined
    /\ lastOp.fn = "get"
    /\ Threw(lastOp.result)

\* a reader called while a second load was under way got the snapshot of the first
C30_WitnessReload ==
    /\ pc = "loading"
    /\ initCalls = 2
    /\ lastOp.fn = "getAll"
    /\ lastOp.result = Return(config)
    /\ loadResult = Return(config)

=============================================================================
